---------------------------- MODULE Spec2Model ----------------------------
(***************************************************************************)
(* A model of the rendering engine of pptx2md (src/pptx2md/outputter):     *)
(* the density classifier, the title continuity tracker of the shared,    *)
(* Marp and Beamer walkers, the column-split planner, the image position  *)
(* resolver and the style-run merger.                                     *)
(*                                                                         *)
(* Text is a sequence of one-character strings.  The control characters   *)
(* that TLA+ strings cannot spell are the tokens "VT" (U+000B), "FF"      *)
(* (U+000C), "NBSP" (U+00A0), "NNBSP" (U+202F) and "BQ" (the backtick).      *)
(* Python's None is the string "None" for scalars and the empty tuple for *)
(* last_title_info.                                                        *)
(***************************************************************************)
EXTENDS Integers, Sequences, FiniteSets, TLC

VARIABLES
    \* Formatter._get_slide_density_class: its argument and its result
    line_count, density_class,
    \* the title tracker: the emitter, its configuration, its state, and the
    \* Title element it was handed last with what put_title received for it
    formatter, keep_similar_titles, disable_escaping, last_title_info,
    title_elem, title_put,
    \* the image position resolver: the configuration it reads, the ImageElement,
    \* the target width the resolver was called with, and the placement chosen by
    \* the resolver, by MarpFormatter.put_image and by BeamerFormatter.put_image
    slide_width_px, image_width, disable_image_wrapping, image,
    hint_target, hint_result, marp_placement, beamer_placement,
    \* the column-split planner: the elements of one General slide and what
    \* MarpFormatter.output and BeamerFormatter.output make of them
    slide, marp_plan, beamer_plan,
    \* the style-run merger: disable_color of the configuration, the runs of one
    \* element, get_formatted_runs of them, and get_formatted_runs of the single
    \* run that holds their concatenated text
    disable_color, runs, formatted, formatted_single,
    \* get_formatted_runs of one run that carries the text get_formatted_runs
    \* returned, and the style given to that run
    reformatted,
    \* inline code: the text of a code run, get_inline_code of it by the shared
    \* Formatter and by MarpFormatter
    code_text, inline_code, marp_inline_code,
    \* Beamer lists: where BeamerFormatter.output is (between frames, in a
    \* frame, in the loop of _put_elements_on_slide), current_list_level,
    \* last_element_type of _put_elements_on_slide, what was written, and the
    \* number of steps taken
    list_pc, current_list_level, last_element_type, list_tex, list_steps,
    \* Beamer frames: the presentation handed to BeamerFormatter.output, the
    \* number of its slides the loop has dealt with, what was written, in_frame,
    \* and whether the loop is over and the document ended
    frame_pres, frame_idx, frame_tex, in_frame, frame_closed,
    \* Beamer density: the class BeamerFormatter gives line_count
    beamer_density_class,
    \* Emission order: the elements of the slide in the order the loop of the
    \* shared Formatter.output has dealt with them
    walked,
    \* Conversion: the dialects the configuration asks for, the dialects whose
    \* output file cannot be opened, the number of entries of format_configs
    \* the loop of convert has dealt with, the dialects whose document was
    \* written, and how convert stands (running, returned, raised)
    requested, unopenable, format_idx, produced, convert_status,
    \* Shared walker: last_element_type of Formatter.output, the calls it has
    \* made (list header, list item, list footer, another element) with the
    \* slide ends between them, and the number of steps taken
    walker_last_element_type, walker_calls, walker_steps,
    \* MultiColumn slides: one MultiColumn slide and what the Marp, the Beamer
    \* and the Quarto output make of it
    mc_slide, mc_marp, mc_beamer, mc_quarto,
    \* Title trackers side by side: the configuration, last_title_info of the
    \* shared walker, last_title_tracker of QuartoFormatter.output, the
    \* decisions the two took for the last title, and the titles fed so far
    tracker_keep, tracker_noesc, base_tracker, quarto_tracker, tracker_decisions,
    tracker_count,
    \* the last non-empty title fed and the number of times in a row it came
    tracker_fed,
    \* Runs in the overriding dialects: the dialect and its disable_escaping,
    \* the runs of one element, what get_formatted_runs returned for them, and
    \* the table cell put_table wrote from it
    dialect, dialect_noesc, dialect_runs, dialect_out, dialect_cell

densityVars == <<line_count, density_class>>
titleVars == <<formatter, keep_similar_titles, disable_escaping, last_title_info,
               title_elem, title_put>>
imageVars == <<slide_width_px, image_width, disable_image_wrapping, image,
               hint_target, hint_result, marp_placement, beamer_placement>>
splitVars == <<slide, marp_plan, beamer_plan>>
runsVars == <<disable_color, runs, formatted, formatted_single, reformatted>>
codeVars == <<code_text, inline_code, marp_inline_code>>
beamerListVars == <<list_pc, current_list_level, last_element_type, list_tex, list_steps>>
\* the parts of the engine that follow the first five
beamerFrameVars == <<frame_pres, frame_idx, frame_tex, in_frame, frame_closed>>
beamerDensityVars == <<beamer_density_class>>
orderVars == <<walked>>
convertVars == <<requested, unopenable, format_idx, produced, convert_status>>
walkerVars == <<walker_last_element_type, walker_calls, walker_steps>>
multiColumnVars == <<mc_slide, mc_marp, mc_beamer, mc_quarto>>
trackerVars == <<tracker_keep, tracker_noesc, base_tracker, quarto_tracker, tracker_decisions, tracker_count, tracker_fed>>
dialectVars == <<dialect, dialect_noesc, dialect_runs, dialect_out, dialect_cell>>
laterVars == <<codeVars, beamerListVars, beamerFrameVars, beamerDensityVars, orderVars,
               convertVars, walkerVars,
    multiColumnVars,
    trackerVars,
    dialectVars>>
vars == <<densityVars, titleVars, imageVars, splitVars, runsVars, laterVars>>

\* what a step of one part of the engine leaves alone
notDensityVars == <<titleVars, imageVars, splitVars, runsVars, laterVars>>
notTitleVars == <<densityVars, imageVars, splitVars, runsVars, laterVars>>
notImageVars == <<densityVars, titleVars, splitVars, runsVars, laterVars>>
notSplitVars == <<densityVars, titleVars, imageVars, runsVars, laterVars>>
notRunsVars == <<densityVars, imageVars, splitVars, last_title_info, title_elem,
                 title_put, keep_similar_titles, laterVars>>
\* the title tracker's state without the configuration it shares
titleStateVars == <<formatter, keep_similar_titles, last_title_info, title_elem, title_put>>
notCodeVars == <<densityVars, titleStateVars, imageVars, splitVars, runsVars,
                 beamerListVars, beamerFrameVars, beamerDensityVars, orderVars,
                 convertVars, walkerVars,
    multiColumnVars,
    trackerVars,
    dialectVars>>
\* the first five parts
earlierVars == <<densityVars, titleVars, imageVars, splitVars, runsVars>>
notBeamerListVars == <<earlierVars, codeVars, beamerFrameVars, beamerDensityVars,
                       orderVars, convertVars, walkerVars,
    multiColumnVars,
    trackerVars,
    dialectVars>>
notBeamerFrameVars == <<earlierVars, codeVars, beamerListVars, beamerDensityVars,
                        orderVars, convertVars, walkerVars,
    multiColumnVars,
    trackerVars,
    dialectVars>>
notBeamerDensityVars == <<earlierVars, codeVars, beamerListVars, beamerFrameVars,
                          orderVars, convertVars, walkerVars,
    multiColumnVars,
    trackerVars,
    dialectVars>>
notOrderVars == <<earlierVars, codeVars, beamerListVars, beamerFrameVars,
                  beamerDensityVars, convertVars, walkerVars,
    multiColumnVars,
    trackerVars,
    dialectVars>>
notConvertVars == <<earlierVars, codeVars, beamerListVars, beamerFrameVars,
                    beamerDensityVars, orderVars, walkerVars,
    multiColumnVars,
    trackerVars,
    dialectVars>>
notWalkerVars == <<earlierVars, codeVars, beamerListVars, beamerFrameVars,
                   beamerDensityVars, orderVars, convertVars,
    multiColumnVars,
    trackerVars,
    dialectVars>>
notMultiColumnVars == <<earlierVars,
    codeVars,
    beamerListVars,
    beamerFrameVars,
    beamerDensityVars,
    orderVars,
    convertVars,
    walkerVars,
    trackerVars,
    dialectVars>>
notTrackerVars == <<earlierVars,
    codeVars,
    beamerListVars,
    beamerFrameVars,
    beamerDensityVars,
    orderVars,
    convertVars,
    walkerVars,
    multiColumnVars,
    dialectVars>>
notDialectVars == <<earlierVars,
    codeVars,
    beamerListVars,
    beamerFrameVars,
    beamerDensityVars,
    orderVars,
    convertVars,
    walkerVars,
    multiColumnVars,
    trackerVars>>

None == "None"
\* None in an Optional[int] field or result
NoInt == -1

-----------------------------------------------------------------------------
(* Text helpers: Python's str methods on sequences of characters.          *)

\* str.isspace() of one character
IsSpace(c) == c \in {" ", "\t", "\n", "\r", "VT", "FF", "NBSP", "NNBSP"}

\* the least and the greatest element of a non-empty set of integers
SetMin(S) == CHOOSE x \in S : \A y \in S : x <= y
SetMax(S) == CHOOSE x \in S : \A y \in S : x >= y

\* the positions of s that hold no whitespace
NonSpaceAt(s) == {i \in 1..Len(s) : ~IsSpace(s[i])}

\* str.lstrip()
LStrip(s) == IF NonSpaceAt(s) = {} THEN <<>>
             ELSE SubSeq(s, SetMin(NonSpaceAt(s)), Len(s))

\* str.rstrip()
RStrip(s) == IF NonSpaceAt(s) = {} THEN <<>>
             ELSE SubSeq(s, 1, SetMax(NonSpaceAt(s)))

RECURSIVE FlattenTuple(_)
\* "".join(parts), by halves
FlattenTuple(parts) ==
    IF Len(parts) = 0 THEN <<>>
    ELSE IF Len(parts) = 1 THEN parts[1]
    ELSE LET h == Len(parts) \div 2
         IN FlattenTuple(SubSeq(parts, 1, h))
            \o FlattenTuple(SubSeq(parts, h + 1, Len(parts)))

\* "".join(parts) for the parts given as a function of the position
Flatten(parts) == FlattenTuple(SubSeq(parts, 1, Len(parts)))

\* str.strip()
Strip(s) == RStrip(LStrip(s))

Max(a, b) == IF a >= b THEN a ELSE b
Min(a, b) == IF a <= b THEN a ELSE b

-----------------------------------------------------------------------------
(* rapidfuzz.fuzz.ratio: the normalized Indel similarity, 100 * 2 * LCS /  *)
(* (len(a) + len(b)); with score_cutoff the score is returned when it is  *)
(* at least the cutoff and 0 otherwise.                                    *)

RECURSIVE LcsRow(_, _, _, _)
\* One row of the longest-common-subsequence table: prev is the row of the
\* prefix of a that ends before character c, acc the cells of this row built
\* so far (cell 0 is acc[1] = 0).
LcsRow(c, b, prev, acc) ==
    IF Len(acc) = Len(b) + 1 THEN acc
    ELSE LET j == Len(acc)
             cell == IF c = b[j] THEN prev[j] + 1
                     ELSE Max(prev[j + 1], acc[j])
         IN LcsRow(c, b, prev, Append(acc, cell))

RECURSIVE LcsTable(_, _, _, _)
LcsTable(a, b, i, prev) ==
    IF i > Len(a) THEN prev
    ELSE LcsTable(a, b, i + 1, LcsRow(a[i], b, prev, <<0>>))

LcsLen(a, b) == LcsTable(a, b, 1, [j \in 1..(Len(b) + 1) |-> 0])[Len(b) + 1]

SCORE_CUTOFF == 92

\* bool(fuzz.ratio(a, b, score_cutoff=92)): the score is non-zero
FuzzRatioAtCutoff(a, b) ==
    IF Len(a) + Len(b) = 0 THEN TRUE
    ELSE 200 * LcsLen(a, b) >= SCORE_CUTOFF * (Len(a) + Len(b))

-----------------------------------------------------------------------------
(* Formatter._get_slide_density_class (base.py)                            *)

LINES_NORMAL_MAX == 8
LINES_SMALL_MAX == 12
LINES_SMALLER_MAX == 18

\* a plausible slip: inclusive thresholds, as in the Beamer override
GetSlideDensityClassInclusive(n) ==
    IF n >= LINES_SMALLER_MAX THEN "smallest"
    ELSE IF n >= LINES_SMALL_MAX THEN "smaller"
    ELSE IF n >= LINES_NORMAL_MAX THEN "small"
    ELSE None

GetSlideDensityClass(n) ==
    IF n > LINES_SMALLER_MAX THEN "smallest"
    ELSE IF n > LINES_SMALL_MAX THEN "smaller"
    ELSE IF n > LINES_NORMAL_MAX THEN "small"
    ELSE None

MaxLineCount == 60

ClassifyDensity ==
    /\ density_class = "unset"
    /\ density_class' = GetSlideDensityClass(line_count)
    /\ UNCHANGED <<line_count, notDensityVars>>

-----------------------------------------------------------------------------
(* Escaping (marp.py, beamer.py).  The shared Formatter.get_escaped is the *)
(* identity.                                                               *)

\* re.sub(r'([\|\*`])', esc_repl, text): a backslash before | * and the backtick
MarpEscRe1(s) ==
    Flatten([i \in 1..Len(s) |->
                IF s[i] \in {"|", "*", "BQ"} THEN <<"\\", s[i]>> ELSE <<s[i]>>])

\* the index of the first ">" of s at or after i, 0 when there is none
FirstGt(s, i) ==
    LET gts == {j \in i..Len(s) : s[j] = ">"}
    IN IF gts = {} THEN 0 ELSE SetMin(gts)

RECURSIVE MarpEscRe2(_)
\* re.sub(r'(<[^>]+>)', esc_repl, text): a backslash before each tag-like
\* match, found leftmost first
MarpEscRe2(s) ==
    LET starts == {i \in 1..Len(s) : s[i] = "<" /\ FirstGt(s, i + 2) # 0}
    IN IF starts = {} THEN s
       ELSE LET i == SetMin(starts)
                k == FirstGt(s, i + 2)
            IN SubSeq(s, 1, i - 1) \o <<"\\">> \o SubSeq(s, i, k)
               \o MarpEscRe2(SubSeq(s, k + 1, Len(s)))

\* text.replace('\u000B', ' ').replace('\u000C', ' ')
ReplaceVtFfBySpace(s) ==
    Flatten([i \in 1..Len(s) |-> <<IF s[i] \in {"VT", "FF"} THEN " " ELSE s[i]>>])

\* MarpFormatter.get_escaped
MarpGetEscaped(noesc, text) ==
    IF noesc THEN text
    ELSE MarpEscRe2(MarpEscRe1(ReplaceVtFfBySpace(text)))

\* BeamerFormatter.esc_map, the default (non-URL, non-verbatim) replacement
BeamerEscMap(c) ==
    CASE c = "\\" -> <<"\\","t","e","x","t","b","a","c","k","s","l","a","s","h","{","}">>
      [] c = "{" -> <<"\\", "{">>
      [] c = "}" -> <<"\\", "}">>
      [] c = "&" -> <<"\\", "&">>
      [] c = "%" -> <<"\\", "%">>
      [] c = "$" -> <<"\\", "$">>
      [] c = "#" -> <<"\\", "#">>
      [] c = "_" -> <<"\\", "_">>
      [] c = "^" -> <<"\\","t","e","x","t","a","s","c","i","i","c","i","r","c","u","m","{","}">>
      [] c = "~" -> <<"\\","t","e","x","t","a","s","c","i","i","t","i","l","d","e","{","}">>
      [] c = "<" -> <<"\\","t","e","x","t","l","e","s","s","{","}">>
      [] c = ">" -> <<"\\","t","e","x","t","g","r","e","a","t","e","r","{","}">>
      [] c = "|" -> <<"\\","t","e","x","t","b","a","r","{","}">>
      [] c = "\"" -> <<"'", "'">>
      [] c = "NBSP" -> <<"~">>
      [] c = "VT" -> <<" ">>
      [] c = "FF" -> <<" ">>
      [] OTHER -> <<c>>

RECURSIVE BeamerEscSub(_)
BeamerEscSub(s) ==
    IF s = <<>> THEN <<>> ELSE BeamerEscMap(Head(s)) \o BeamerEscSub(Tail(s))

\* BeamerFormatter.get_escaped(text)
BeamerGetEscaped(noesc, text) == IF noesc THEN text ELSE BeamerEscSub(text)

-----------------------------------------------------------------------------
(* The title continuity tracker: Formatter.output (base.py),               *)
(* MarpFormatter._put_elements_on_slide (marp.py) and the frame title of   *)
(* BeamerFormatter.output (beamer.py).  A tracker step returns what        *)
(* put_title (or \frametitle) received, <<>> when nothing was written, and *)
(* the new last_title_info.                                                *)

ContSuffix == <<" ", "(", "c", "o", "n", "t", ".", ")">>

\* last_title_info and last_title_info[1] == level and fuzz.ratio(..., score_cutoff=92)
IsSimilarToLast(last, title_text, level) ==
    /\ last # <<>>
    /\ last[2] = level
    /\ FuzzRatioAtCutoff(last[1], title_text)

\* a plausible slip: the level of the last title is not compared
BaseTitleCaseAnyLevel(last, keep, e) ==
    LET title_text == Strip(e.content)
        similar == last # <<>> /\ FuzzRatioAtCutoff(last[1], title_text)
    IN IF title_text = <<>> THEN [put |-> <<>>, last |-> last]
       ELSE IF similar
            THEN IF keep
                 THEN [put |-> <<title_text \o ContSuffix, e.level>>,
                       last |-> <<title_text \o ContSuffix, e.level>>]
                 ELSE [put |-> <<>>, last |-> last]
            ELSE [put |-> <<title_text, e.level>>, last |-> <<title_text, e.level>>]

\* case ElementType.Title of Formatter.output
BaseTitleCase(last, keep, e) ==
    LET title_text == Strip(e.content)
    IN IF title_text = <<>> THEN [put |-> <<>>, last |-> last]
       ELSE IF IsSimilarToLast(last, title_text, e.level)
            THEN IF keep
                 THEN LET effective_title == title_text \o ContSuffix
                      IN [put |-> <<effective_title, e.level>>,
                          last |-> <<effective_title, e.level>>]
                 ELSE [put |-> <<>>, last |-> last]
            ELSE [put |-> <<title_text, e.level>>, last |-> <<title_text, e.level>>]

\* case ElementType.Title of MarpFormatter._put_elements_on_slide, which output
\* always calls with is_continued_slide=False
MarpTitleCase(last, keep, noesc, e) ==
    LET title_text == Strip(MarpGetEscaped(noesc, e.content))
    IN IF title_text = <<>> THEN [put |-> <<>>, last |-> last]
       ELSE IF IsSimilarToLast(last, title_text, e.level)
            THEN IF keep
                 THEN LET effective_title == title_text
                      IN [put |-> <<effective_title, e.level>>,
                          last |-> <<effective_title, e.level>>]
                 ELSE [put |-> <<>>, last |-> last]
            ELSE [put |-> <<title_text, e.level>>, last |-> <<title_text, e.level>>]

\* the main_title_element branch of BeamerFormatter.output (content is a str)
BeamerFrameTitle(last, noesc, e) ==
    LET formatted_title == IF e.content # <<>>
                           THEN BeamerGetEscaped(noesc, Strip(e.content))
                           ELSE <<>>
    IN IF formatted_title # <<>>
       THEN [put |-> <<formatted_title, e.level>>,
             last |-> <<Strip(e.content), e.level>>]
       ELSE [put |-> <<>>, last |-> last]

\* The Title elements the walkers are handed: TitleElement.content is a str,
\* level an int >= 1.
TitleContents == {
    <<"R", "e", "s", "u", "l", "t", "s">>,
    <<"R", "e", "s", "u", "l", "t", "s", " ">>,
    <<"R", "e", "s", "u", "l", "t", "s", "2">>,
    <<"R", "e", "s", "u", "l", "t">>,
    <<"A", "*", "<", "b", ">", "_">>,
    <<" ", " ">> }

MaxTitleLevel == 2

TitleElements == [content : TitleContents, level : 1..MaxTitleLevel]

NoElement == [content |-> <<>>, level |-> 0]

Formatters == {"base", "marp", "beamer"}

TitleStep(r, e) ==
    /\ title_put' = r.put
    /\ last_title_info' = r.last
    /\ title_elem' = e
    /\ UNCHANGED <<formatter, keep_similar_titles, disable_escaping, notTitleVars>>

\* Formatter.output reaches a Title element
OutputTitle ==
    /\ formatter = "base"
    /\ \E e \in TitleElements :
          TitleStep(BaseTitleCase(last_title_info, keep_similar_titles, e), e)

\* MarpFormatter.output puts a Title element on the slide
MarpPutTitle ==
    /\ formatter = "marp"
    /\ \E e \in TitleElements :
          TitleStep(MarpTitleCase(last_title_info, keep_similar_titles,
                                  disable_escaping, e), e)

\* BeamerFormatter.output writes the frame title of a slide
BeamerOutputFrameTitle ==
    /\ formatter = "beamer"
    /\ \E e \in TitleElements :
          TitleStep(BeamerFrameTitle(last_title_info, disable_escaping, e), e)

-----------------------------------------------------------------------------
(* The image position resolver (base.py, overridden verbatim in beamer.py) *)
(* and the placement chosen by the Marp and Beamer put_image.              *)

DEFAULT_SLIDE_WIDTH_PX == 1600
MARP_TARGET_WIDTH_PX == 1280

Abs(x) == IF x < 0 THEN -x ELSE x

\* int(round(num / den)) for num >= 0, den > 0: Python 3 rounds halves to even
RoundHalfEven(num, den) ==
    LET q == num \div den
        r2 == 2 * (num % den)
    IN IF r2 < den THEN q
       ELSE IF r2 > den THEN q + 1
       ELSE IF q % 2 = 0 THEN q ELSE q + 1

\* self.config.slide_width_px or DEFAULT_SLIDE_WIDTH_PX
PresOriginalSlideWidth(cfg_width) ==
    IF cfg_width = NoInt \/ cfg_width = 0 THEN DEFAULT_SLIDE_WIDTH_PX ELSE cfg_width

\* Formatter._get_scaled_image_width_for_hinting
GetScaledImageWidthForHinting(el, cfg_image_width, original, target) ==
    LET ppt_display_width == IF el.display_width_px = NoInt /\ cfg_image_width # NoInt
                             THEN cfg_image_width ELSE el.display_width_px
    IN IF ppt_display_width # NoInt /\ original > 0
       THEN RoundHalfEven(ppt_display_width * target, original)
       ELSE NoInt

\* the three-way comparison of the centre left + width / 2 with the thirds of
\* the canvas, in sixths of a pixel: None when the centre is on a boundary
ThirdOf(scaled_left, scaled_width, canvas) ==
    LET centre6 == 3 * (2 * scaled_left + scaled_width)
    IN IF 2 * canvas < centre6 /\ centre6 < 4 * canvas THEN "center"
       ELSE IF centre6 < 2 * canvas THEN "left"
       ELSE IF centre6 > 4 * canvas THEN "right"
       ELSE None

\* a plausible slip: the left edge of the image is compared, not its centre
GetImageEffectivePositionHintLeftEdge(el, cfg_image_width, original, target) ==
    LET scaled_display_width ==
            GetScaledImageWidthForHinting(el, cfg_image_width, original, target)
        calculated_hint ==
            IF el.left_px # NoInt /\ original > 0
               /\ scaled_display_width # NoInt /\ scaled_display_width > 0
            THEN ThirdOf(RoundHalfEven(el.left_px * target, original), 0, target)
            ELSE None
    IN IF el.position_hint \in {"left", "right", "center"}
       THEN el.position_hint ELSE calculated_hint

\* Formatter._get_image_effective_position_hint
GetImageEffectivePositionHint(el, cfg_image_width, original, target) ==
    LET scaled_display_width ==
            GetScaledImageWidthForHinting(el, cfg_image_width, original, target)
        calculated_hint ==
            IF el.left_px # NoInt /\ original > 0
               /\ scaled_display_width # NoInt /\ scaled_display_width > 0
            THEN LET scaled_left_px == RoundHalfEven(el.left_px * target, original)
                 IN ThirdOf(scaled_left_px, scaled_display_width, target)
            ELSE None
    IN IF el.position_hint \in {"left", "right", "center"}
       THEN el.position_hint ELSE calculated_hint

\* effective_position_hint of MarpFormatter.put_image.  The images of the model
\* carry no display height and no original size, so the width is scaled from
\* the display width (or the configured default) or is unknown.
MarpPutImagePlacement(el, cfg_width, cfg_image_width) ==
    LET original == PresOriginalSlideWidth(cfg_width)
        ppt_display_width == IF el.display_width_px = NoInt /\ cfg_image_width # NoInt
                             THEN cfg_image_width ELSE el.display_width_px
        current_display_width ==
            IF ppt_display_width # NoInt /\ original > 0
            THEN RoundHalfEven(ppt_display_width * MARP_TARGET_WIDTH_PX, original)
            ELSE NoInt
        scaled_left_px ==
            IF el.left_px # NoInt /\ original > 0
            THEN RoundHalfEven(el.left_px * MARP_TARGET_WIDTH_PX, original)
            ELSE NoInt
        position_hint ==
            IF scaled_left_px # NoInt /\ current_display_width # NoInt
            THEN ThirdOf(scaled_left_px, current_display_width, MARP_TARGET_WIDTH_PX)
            ELSE None
    IN IF position_hint # None THEN position_hint ELSE el.position_hint

\* the environment BeamerFormatter.put_image writes: wrapfigure l ("left"),
\* wrapfigure r ("right") or a centred figure ("center").  position_hint is no
\* field of ImageElement: None is the absent attribute, for which getattr
\* gives the computed default.
BeamerPutImagePlacement(el, cfg_width, no_wrap) ==
    LET computed ==
            IF el.left_px # NoInt /\ el.display_width_px # NoInt
               /\ cfg_width # NoInt /\ cfg_width > 0
            THEN LET centre6 == 3 * (2 * el.left_px + el.display_width_px)
                 IN IF centre6 < 2 * cfg_width THEN "left"
                    ELSE IF centre6 > 4 * cfg_width THEN "right"
                    ELSE "center"
            ELSE "center"
        effective_position_hint ==
            IF el.position_hint # None THEN el.position_hint ELSE computed
    IN IF effective_position_hint \in {"left", "right"} /\ ~no_wrap
       THEN effective_position_hint
       ELSE "center"

\* ImageElement: left_px, display_width_px (Optional[int]) and the optional
\* explicit position hint
LeftPxValues == {NoInt, 0, 50, 300, 700, 1000, 1300}
DisplayWidthValues == {NoInt, 0, 200, 400}
PositionHints == {None, "left", "center", "right"}
ImageElements == [left_px : LeftPxValues, display_width_px : DisplayWidthValues,
                  position_hint : PositionHints]
SlideWidthValues == {NoInt, 1200, 1600}
ImageWidthValues == {NoInt, 400}

\* _separate_slide_elements calls the resolver: the Marp walker with the Marp
\* canvas as target, the Beamer walker with the original width as target
ResolveImagePositionHint ==
    /\ hint_result = "unset"
    /\ \E target \in {MARP_TARGET_WIDTH_PX, PresOriginalSlideWidth(slide_width_px)} :
          /\ hint_target' = target
          /\ hint_result' = GetImageEffectivePositionHint(
                                image, image_width,
                                PresOriginalSlideWidth(slide_width_px), target)
    /\ UNCHANGED <<slide_width_px, image_width, disable_image_wrapping, image,
                   marp_placement, beamer_placement, notImageVars>>

MarpPutImage ==
    /\ marp_placement = "unset"
    /\ marp_placement' = MarpPutImagePlacement(image, slide_width_px, image_width)
    /\ UNCHANGED <<slide_width_px, image_width, disable_image_wrapping, image,
                   hint_target, hint_result, beamer_placement, notImageVars>>

BeamerPutImage ==
    /\ beamer_placement = "unset"
    /\ beamer_placement' = BeamerPutImagePlacement(image, slide_width_px,
                                                   disable_image_wrapping)
    /\ UNCHANGED <<slide_width_px, image_width, disable_image_wrapping, image,
                   hint_target, hint_result, marp_placement, notImageVars>>

-----------------------------------------------------------------------------
(* Slide metrics, separation of title and floated images, and the          *)
(* column-split planner of MarpFormatter.output and BeamerFormatter.output *)
(* for a General slide.  An element is described by what the metrics read: *)
(* its type, len (characters of its text or code), slen (characters of the *)
(* text stripped), nl (newlines in the text or code), rows (table rows)    *)
(* and, for an image, its geometry.                                        *)

NoGeometry == [left_px |-> NoInt, display_width_px |-> NoInt, position_hint |-> None]

TextElement(type, len, slen, nl) ==
    [type |-> type, len |-> len, slen |-> slen, nl |-> nl, rows |-> 0,
     img |-> NoGeometry]
TableElement(rows, len) ==
    [type |-> "Table", len |-> len, slen |-> len, nl |-> 0, rows |-> rows,
     img |-> NoGeometry]
ImageElement(left, width) ==
    [type |-> "Image", len |-> 0, slen |-> 0, nl |-> 0, rows |-> 0,
     img |-> [left_px |-> left, display_width_px |-> width, position_hint |-> None]]

\* the line_count, text_lines_for_avg_heuristic and text_chars_for_avg_heuristic
\* that Formatter._get_slide_content_metrics adds for one element
BaseElementMetrics(el) ==
    CASE el.type = "Title" -> [lines |-> 1, text_lines |-> 0, text_chars |-> 0]
      [] el.type \in {"ListItem", "Paragraph"} ->
            [lines |-> 1, text_lines |-> 1, text_chars |-> el.slen]
      [] el.type = "CodeBlock" ->
            [lines |-> IF el.len > 0 THEN el.nl + 1 ELSE 1,
             text_lines |-> 0, text_chars |-> 0]
      [] el.type = "Table" -> [lines |-> el.rows, text_lines |-> 0, text_chars |-> 0]
      [] OTHER -> [lines |-> 0, text_lines |-> 0, text_chars |-> 0]

IMAGE_DENSITY_LINE_EQUIVALENT == 3
TABLE_ROW_DENSITY_LINE_EQUIVALENT == 1

\* the same three counters in BeamerFormatter._get_slide_content_metrics
BeamerElementMetrics(el) ==
    LET lines_in_element == IF el.len > 0 THEN el.nl + 1 ELSE 0
    IN CASE el.type = "Title" ->
              [lines |-> lines_in_element, text_lines |-> 0, text_chars |-> 0]
         [] el.type \in {"ListItem", "Paragraph", "CodeBlock"} ->
              [lines |-> lines_in_element, text_lines |-> lines_in_element,
               text_chars |-> el.len]
         [] el.type = "Image" ->
              [lines |-> IMAGE_DENSITY_LINE_EQUIVALENT,
               text_lines |-> IMAGE_DENSITY_LINE_EQUIVALENT, text_chars |-> 0]
         [] el.type = "Table" ->
              [lines |-> el.rows * TABLE_ROW_DENSITY_LINE_EQUIVALENT,
               text_lines |-> el.rows * TABLE_ROW_DENSITY_LINE_EQUIVALENT,
               text_chars |-> el.len]
         [] OTHER -> [lines |-> 0, text_lines |-> 0, text_chars |-> 0]

RECURSIVE SumMetrics(_, _)
\* the loop of _get_slide_content_metrics; beamer selects the override
SumMetrics(elements, beamer) ==
    IF elements = <<>> THEN [lines |-> 0, text_lines |-> 0, text_chars |-> 0]
    ELSE LET m == IF beamer THEN BeamerElementMetrics(Head(elements))
                  ELSE BaseElementMetrics(Head(elements))
             rest == SumMetrics(Tail(elements), beamer)
         IN [lines |-> m.lines + rest.lines,
             text_lines |-> m.text_lines + rest.text_lines,
             text_chars |-> m.text_chars + rest.text_chars]

GetSlideContentMetrics(elements) == SumMetrics(elements, FALSE)
BeamerGetSlideContentMetrics(elements) == SumMetrics(elements, TRUE)

SMALL_FONT_LINE_THRESHOLD == 8
SMALLER_FONT_LINE_THRESHOLD == 12
SMALLEST_FONT_LINE_THRESHOLD == 18

\* BeamerFormatter._get_slide_density_class with the default thresholds
BeamerGetSlideDensityClass(n) ==
    IF n >= SMALLEST_FONT_LINE_THRESHOLD THEN "smallest"
    ELSE IF n >= SMALLER_FONT_LINE_THRESHOLD THEN "smaller"
    ELSE IF n >= SMALL_FONT_LINE_THRESHOLD THEN "small"
    ELSE None

\* Formatter._separate_slide_elements: the leading Title, the images whose
\* hint is left or right, and the rest in order
IsFloated(el, cfg_image_width, original, target) ==
    /\ el.type = "Image"
    /\ GetImageEffectivePositionHint(el.img, cfg_image_width, original, target)
          \in {"left", "right"}

\* a plausible slip: no image is taken out of the pool
SeparateSlideElementsNoFloat(initial_elements, cfg_image_width, original, target) ==
    LET has_title == initial_elements # <<>> /\ Head(initial_elements).type = "Title"
        pool == IF has_title THEN Tail(initial_elements) ELSE initial_elements
    IN [title |-> IF has_title THEN <<Head(initial_elements)>> ELSE <<>>,
        floated |-> <<>>,
        other |-> pool]

SeparateSlideElements(initial_elements, cfg_image_width, original, target) ==
    LET has_title == initial_elements # <<>> /\ Head(initial_elements).type = "Title"
        pool == IF has_title THEN Tail(initial_elements) ELSE initial_elements
        Floated(el) == IsFloated(el, cfg_image_width, original, target)
        NotFloated(el) == ~IsFloated(el, cfg_image_width, original, target)
    IN [title |-> IF has_title THEN <<Head(initial_elements)>> ELSE <<>>,
        floated |-> SelectSeq(pool, Floated),
        other |-> SelectSeq(pool, NotFloated)]

HasTable(elements) == \E i \in 1..Len(elements) : elements[i].type = "Table"

MARP_COLUMNS_LINE_LENGTH_THRESHOLD == 40
BEAMER_COLUMNS_LINE_LENGTH_THRESHOLD == 40

\* a plausible slip: the smaller half first
NumInFirstColFloor(n) == n \div 2

\* num_in_first_col = (len(other_content_elements) + 1) // 2
NumInFirstCol(n) == (n + 1) \div 2

\* a plausible slip: the table check is left out
MarpActuallySplitColumnsNoTableCheck(current_slide_class, other) ==
    LET m == GetSlideContentMetrics(other)
    IN /\ current_slide_class \in {"smaller", "smallest"}
       /\ m.text_lines > 0
       /\ m.text_chars < MARP_COLUMNS_LINE_LENGTH_THRESHOLD * m.text_lines
       /\ Len(other) >= 2

\* actually_split_columns of MarpFormatter.output
MarpActuallySplitColumns(current_slide_class, other) ==
    LET m == GetSlideContentMetrics(other)
        initial_split_qualification ==
            /\ current_slide_class \in {"smaller", "smallest"}
            /\ m.text_lines > 0
            /\ m.text_chars < MARP_COLUMNS_LINE_LENGTH_THRESHOLD * m.text_lines
    IN /\ initial_split_qualification
       /\ Len(other) >= 2
       /\ ~HasTable(other)

NoPlan == [done |-> FALSE, class |-> None, split |-> FALSE, title |-> <<>>,
           floated |-> <<>>, other |-> <<>>, first |-> <<>>, second |-> <<>>]

\* One General slide through MarpFormatter.output: class is the _class
\* directive written (None when none is), first and second the element lists
\* of the two column regions (first alone when the slide is not split).
MarpSlidePlan(elements, cfg_width, cfg_image_width) ==
    IF elements = <<>> THEN [NoPlan EXCEPT !.done = TRUE]
    ELSE
    LET sep == SeparateSlideElements(elements, cfg_image_width,
                                     PresOriginalSlideWidth(cfg_width),
                                     MARP_TARGET_WIDTH_PX)
        current_slide_class == GetSlideDensityClass(GetSlideContentMetrics(elements).lines)
        actually_split_columns == MarpActuallySplitColumns(current_slide_class, sep.other)
        effective_slide_class ==
            IF actually_split_columns /\ current_slide_class \in {"smaller", "smallest"}
            THEN "small" ELSE current_slide_class
        num_in_first_col == NumInFirstCol(Len(sep.other))
    IN [done |-> TRUE, class |-> effective_slide_class,
        split |-> actually_split_columns,
        title |-> sep.title, floated |-> sep.floated, other |-> sep.other,
        first |-> IF actually_split_columns
                  THEN SubSeq(sep.other, 1, num_in_first_col) ELSE sep.other,
        second |-> IF actually_split_columns
                   THEN SubSeq(sep.other, num_in_first_col + 1, Len(sep.other))
                   ELSE <<>>]

\* actually_split_columns_heuristic of BeamerFormatter.output
BeamerActuallySplitColumns(other) ==
    LET m == BeamerGetSlideContentMetrics(other)
        content_density_for_cols_class == BeamerGetSlideDensityClass(m.text_lines)
        initial_split_qualification ==
            /\ content_density_for_cols_class \in {"smaller", "smallest"}
            /\ m.text_lines > 0
            /\ m.text_chars < BEAMER_COLUMNS_LINE_LENGTH_THRESHOLD * m.text_lines
    IN /\ other # <<>>
       /\ initial_split_qualification
       /\ Len(other) >= 2
       /\ ~HasTable(other)

\* One General slide through BeamerFormatter.output: class is the density
\* class whose font-size group is opened (small: \small, smaller:
\* \footnotesize, smallest: \scriptsize, None: no group).
BeamerSlidePlan(elements, cfg_width, cfg_image_width) ==
    IF elements = <<>> THEN [NoPlan EXCEPT !.done = TRUE]
    ELSE
    LET original == PresOriginalSlideWidth(cfg_width)
        sep == SeparateSlideElements(elements, cfg_image_width, original, original)
        density_class_ == BeamerGetSlideDensityClass(
                              BeamerGetSlideContentMetrics(elements).lines)
        actually_split_columns_heuristic == BeamerActuallySplitColumns(sep.other)
        num_in_first_col == NumInFirstCol(Len(sep.other))
    IN [done |-> TRUE, class |-> density_class_,
        split |-> actually_split_columns_heuristic,
        title |-> sep.title, floated |-> sep.floated, other |-> sep.other,
        first |-> IF actually_split_columns_heuristic
                  THEN SubSeq(sep.other, 1, num_in_first_col) ELSE sep.other,
        second |-> IF actually_split_columns_heuristic
                   THEN SubSeq(sep.other, num_in_first_col + 1, Len(sep.other))
                   ELSE <<>>]

\* the elements slides are made of
E_Title == TextElement("Title", 7, 7, 0)
E_Para30 == TextElement("Paragraph", 30, 30, 0)
E_Para50 == TextElement("Paragraph", 52, 50, 0)
E_Item == TextElement("ListItem", 10, 10, 0)
E_Code11 == TextElement("CodeBlock", 100, 100, 10)
E_Code17 == TextElement("CodeBlock", 200, 200, 16)
E_Table11 == TableElement(11, 60)
E_ImageLeft == ImageElement(50, 200)
E_ImageCenter == ImageElement(700, 200)

SlideElementPool == {E_Title, E_Para30, E_Para50, E_Item, E_Code11, E_Code17,
                     E_Table11, E_ImageLeft, E_ImageCenter}

MaxSlideElements == 4

Slides == UNION {[1..n -> SlideElementPool] : n \in 0..MaxSlideElements}

\* temp_content_pool.pop(0) when the pool starts with a Title
PopLeadingTitle(pool) ==
    IF pool # <<>> /\ Head(pool).type = "Title" THEN Tail(pool) ELSE pool

\* a plausible slip: temp_content_pool = initial_elements, one list under two
\* names, so the title is popped from the caller's list
InitialElementsAfterSeparationNoCopy(initial_elements) ==
    LET lists == [caller |-> initial_elements]
        popped == [lists EXCEPT !.caller = PopLeadingTitle(@)]
    IN popped.caller

\* the caller's list after _separate_slide_elements(initial_elements, ...):
\* temp_content_pool = list(initial_elements) is a second list, and the title
\* is popped from it
InitialElementsAfterSeparation(initial_elements) ==
    LET lists == [caller |-> initial_elements, temp_content_pool |-> initial_elements]
        popped == [lists EXCEPT !.temp_content_pool = PopLeadingTitle(@)]
    IN popped.caller

MarpOutputSlide ==
    /\ ~marp_plan.done
    /\ marp_plan' = MarpSlidePlan(slide, slide_width_px, image_width)
    /\ slide' = InitialElementsAfterSeparation(slide)
    /\ UNCHANGED <<beamer_plan, notSplitVars>>

BeamerOutputSlide ==
    /\ ~beamer_plan.done
    /\ beamer_plan' = BeamerSlidePlan(slide, slide_width_px, image_width)
    /\ slide' = InitialElementsAfterSeparation(slide)
    /\ UNCHANGED <<marp_plan, notSplitVars>>

-----------------------------------------------------------------------------
(* The style-run merger: Formatter.get_formatted_runs with the primitives  *)
(* of the shared Formatter (fmt = "base") and of MarpFormatter ("marp").   *)

\* Formatter._format_text_with_delimiters
FormatTextWithDelimiters(text, open_delimiter, close_delimiter) ==
    IF text = <<>> THEN text
    ELSE LET text_without_leading == LStrip(text)
             leading_whitespace == SubSeq(text, 1, Len(text) - Len(text_without_leading))
             core_text == RStrip(text_without_leading)
             trailing_whitespace == SubSeq(text_without_leading, Len(core_text) + 1,
                                           Len(text_without_leading))
         IN IF text_without_leading = <<>> \/ core_text = <<>> THEN text
            ELSE leading_whitespace \o open_delimiter \o core_text
                 \o close_delimiter \o trailing_whitespace

RECURSIVE LongestBacktickSequenceNoFinalMax(_, _, _, _)
\* a plausible slip: the maximum is not taken again after the loop, so a run
\* of backticks that ends the text is not counted
LongestBacktickSequenceNoFinalMax(text, i, longest, current) ==
    IF i > Len(text) THEN longest
    ELSE IF text[i] = "BQ"
         THEN LongestBacktickSequenceNoFinalMax(text, i + 1, longest, current + 1)
         ELSE LongestBacktickSequenceNoFinalMax(text, i + 1, Max(longest, current), 0)

RECURSIVE LongestBacktickSequence(_, _, _, _)
\* the loop of get_inline_code over the characters of the text, from
\* character i on
LongestBacktickSequence(text, i, longest, current) ==
    IF i > Len(text) THEN Max(longest, current)
    ELSE IF text[i] = "BQ"
         THEN LongestBacktickSequence(text, i + 1, longest, current + 1)
         ELSE LongestBacktickSequence(text, i + 1, Max(longest, current), 0)

\* c * n
Repeat(c, n) == Flatten([i \in 1..n |-> <<c>>])

\* str.isspace(): non-empty and all whitespace
AllSpace(text) == text # <<>> /\ \A i \in 1..Len(text) : IsSpace(text[i])

\* Formatter.get_inline_code
BaseGetInlineCode(text) ==
    IF text = <<>> THEN <<>>
    ELSE LET fence_len == LongestBacktickSequence(text, 1, 0, 0) + 1
             fence == Repeat("BQ", fence_len)
         IN IF fence_len = 1
               /\ (Head(text) = "BQ" \/ text[Len(text)] = "BQ" \/ AllSpace(text))
            THEN fence \o <<" ">> \o text \o <<" ">> \o fence
            ELSE fence \o text \o fence

\* MarpFormatter.get_inline_code
MarpGetInlineCode(noesc, text) == <<"BQ">> \o MarpGetEscaped(noesc, text) \o <<"BQ">>

StartsWith2(text, c) == Len(text) >= 2 /\ text[1] = c /\ text[2] = c
EndsWith2(text, c) == Len(text) >= 2 /\ text[Len(text)] = c /\ text[Len(text) - 1] = c

\* Formatter.get_inline_math
GetInlineMath(text) ==
    IF text = <<>> THEN <<>>
    ELSE LET text_lstripped == LStrip(text)
             overall_lw == SubSeq(text, 1, Len(text) - Len(text_lstripped))
             core_run_text == RStrip(text_lstripped)
             overall_tw == SubSeq(text_lstripped, Len(core_run_text) + 1,
                                  Len(text_lstripped))
             formula_candidate_payload ==
                 IF /\ Len(core_run_text) >= 2
                    /\ Head(core_run_text) = "$"
                    /\ core_run_text[Len(core_run_text)] = "$"
                    /\ ~(StartsWith2(core_run_text, "$") /\ EndsWith2(core_run_text, "$"))
                 THEN SubSeq(core_run_text, 2, Len(core_run_text) - 1)
                 ELSE core_run_text
             actual_math_symbols == RStrip(formula_candidate_payload)
             internal_trailing_text ==
                 SubSeq(formula_candidate_payload, Len(actual_math_symbols) + 1,
                        Len(formula_candidate_payload))
             cleaned_math_symbols == Strip(actual_math_symbols)
             formatted_math == IF cleaned_math_symbols = <<>> THEN <<"$", " ", "$">>
                               ELSE <<"$">> \o cleaned_math_symbols \o <<"$">>
         IN IF text_lstripped = <<>> THEN text
            ELSE overall_lw \o formatted_math \o internal_trailing_text \o overall_tw

\* pptx2md.utils.rgb_to_hex: a colour is the token of its hex digits
RgbToHex(rgb) == <<"#", rgb>>

\* get_colored of Formatter and MarpFormatter; the words of the markup, which
\* hold no character any formatter treats specially, are one token each
GetColored(text, rgb) ==
    <<"<", "span style=", "\"", "color:">> \o RgbToHex(rgb) \o <<"\"", ">">>
    \o text \o <<"<", "/span", ">">>

\* get_hyperlink of Formatter and MarpFormatter
GetHyperlink(text, url) == <<"[">> \o text \o <<"]", "(">> \o url \o <<")">>

\* WikiFormatter.wiki_esc_map
WikiEscMap(c) ==
    CASE c = "[" -> <<"&", "#", "9", "1", ";">>
      [] c = "]" -> <<"&", "#", "9", "3", ";">>
      [] c = "|" -> <<"&", "#", "1", "2", "4", ";">>
      [] c = "{" -> <<"&", "#", "1", "2", "3", ";">>
      [] c = "}" -> <<"&", "#", "1", "2", "5", ";">>
      [] c = "=" -> <<"&", "#", "6", "1", ";">>
      [] c = "*" -> <<"&", "#", "4", "2", ";">>
      [] c = "#" -> <<"&", "#", "3", "5", ";">>
      [] c = "'" -> <<"&", "#", "3", "9", ";">>
      [] c = "<" -> <<"&", "l", "t", ";">>
      [] c = ">" -> <<"&", "g", "t", ";">>
      [] c = "&" -> <<"&", "a", "m", "p", ";">>
      [] OTHER -> <<c>>

\* WikiFormatter.get_escaped
WikiGetEscaped(noesc, text) ==
    IF noesc THEN text ELSE Flatten([i \in 1..Len(text) |-> WikiEscMap(text[i])])

\* WikiFormatter.get_colored
WikiGetColored(text, rgb) ==
    <<" ", "<", "span style=", "\"", "color:">> \o RgbToHex(rgb) \o <<"\"", ">">>
    \o text \o <<"<", "/span", ">", " ">>

\* WikiFormatter.get_hyperlink
WikiGetHyperlink(noesc, text, url) ==
    <<"[">> \o WikiGetEscaped(noesc, url) \o <<" ">> \o WikiGetEscaped(noesc, text)
    \o <<"]">>

GetEscaped(fmt, noesc, text) ==
    IF fmt = "marp" THEN MarpGetEscaped(noesc, text)
    ELSE IF fmt = "wiki" THEN WikiGetEscaped(noesc, text)
    ELSE text
GetStrong(fmt, text) ==
    IF fmt = "marp" THEN FormatTextWithDelimiters(text, <<"*", "*">>, <<"*", "*">>)
    ELSE IF fmt = "wiki"
    THEN FormatTextWithDelimiters(text, <<"'", "'", "'">>, <<"'", "'", "'">>)
    ELSE FormatTextWithDelimiters(text, <<"_", "_">>, <<"_", "_">>)
GetAccent(fmt, text) ==
    IF fmt = "marp" THEN FormatTextWithDelimiters(text, <<"*">>, <<"*">>)
    ELSE IF fmt = "wiki" THEN FormatTextWithDelimiters(text, <<"'", "'">>, <<"'", "'">>)
    ELSE FormatTextWithDelimiters(text, <<"_">>, <<"_">>)
\* self.get_colored and self.get_hyperlink of the formatter object
ColoredOf(self, text, rgb) ==
    IF self.fmt = "wiki" THEN WikiGetColored(text, rgb) ELSE GetColored(text, rgb)
HyperlinkOf(self, text, url) ==
    IF self.fmt = "wiki" THEN WikiGetHyperlink(self.disable_escaping, text, url)
    ELSE GetHyperlink(text, url)
GetInlineCode(fmt, noesc, text) ==
    IF fmt = "marp" THEN MarpGetInlineCode(noesc, text) ELSE BaseGetInlineCode(text)

\* TextStyle.hyperlink = None (a URL is a sequence of characters)
NoLink == <<"None">>

\* the configuration and dialect a formatter object carries
FormatterOf(fmt, noesc, nocolor) ==
    [fmt |-> fmt, disable_escaping |-> noesc, disable_color |-> nocolor]

\* a plausible slip: the text is escaped whatever disable_escaping says
FormatSingleMergedRunAlwaysEscapes(self, text, style) ==
    IF text = <<>> /\ ~style.is_code /\ ~style.is_math THEN <<>>
    ELSE IF style.is_code THEN GetInlineCode(self.fmt, self.disable_escaping, text)
    ELSE IF style.is_math THEN GetInlineMath(text)
    ELSE LET escaped == MarpGetEscaped(FALSE, text)
             strong == IF style.is_strong THEN GetStrong(self.fmt, escaped) ELSE escaped
             accent == IF style.is_accent THEN GetAccent(self.fmt, strong) ELSE strong
             colored == IF style.color_rgb # None /\ ~self.disable_color
                        THEN ColoredOf(self, accent, style.color_rgb) ELSE accent
         IN IF style.hyperlink # NoLink THEN HyperlinkOf(self, colored, style.hyperlink)
            ELSE colored

\* Formatter._format_single_merged_run
FormatSingleMergedRun(self, text, style) ==
    IF text = <<>> /\ ~style.is_code /\ ~style.is_math THEN <<>>
    ELSE IF style.is_code THEN GetInlineCode(self.fmt, self.disable_escaping, text)
    ELSE IF style.is_math THEN GetInlineMath(text)
    ELSE LET escaped == IF ~self.disable_escaping
                        THEN GetEscaped(self.fmt, self.disable_escaping, text)
                        ELSE text
             strong == IF style.is_strong THEN GetStrong(self.fmt, escaped) ELSE escaped
             accent == IF style.is_accent THEN GetAccent(self.fmt, strong) ELSE strong
             colored == IF style.color_rgb # None /\ ~self.disable_color
                        THEN ColoredOf(self, accent, style.color_rgb) ELSE accent
         IN IF style.hyperlink # NoLink THEN HyperlinkOf(self, colored, style.hyperlink)
            ELSE colored

\* _normalize_whitespace_in_run_text: U+00A0 and U+202F become a space, U+000B
\* is removed
NormalizeWhitespaceInRunText(text) ==
    Flatten([i \in 1..Len(text) |->
                IF text[i] \in {"NBSP", "NNBSP"} THEN <<" ">>
                ELSE IF text[i] = "VT" THEN <<>>
                ELSE <<text[i]>>])

\* text.replace('\x0B', '')
RemoveVt(text) ==
    Flatten([i \in 1..Len(text) |-> IF text[i] = "VT" THEN <<>> ELSE <<text[i]>>])

\* a plausible slip: styles never compare equal, so no two runs are merged
StylesAreCompatibleNever(style1, style2) == FALSE

\* Formatter._styles_are_compatible
StylesAreCompatible(style1, style2) ==
    /\ style1.is_code = style2.is_code
    /\ style1.is_accent = style2.is_accent
    /\ style1.is_strong = style2.is_strong
    /\ style1.is_math = style2.is_math
    /\ style1.hyperlink = style2.hyperlink
    /\ style1.color_rgb = style2.color_rgb

\* the formatted segment appended for an accumulated run, if any
ClosedSegment(self, current_merged_text, current_style) ==
    IF current_merged_text # <<>> \/ current_style.is_code \/ current_style.is_math
    THEN FormatSingleMergedRun(
             self,
             IF ~(current_style.is_code \/ current_style.is_math)
             THEN RemoveVt(current_merged_text) ELSE current_merged_text,
             current_style)
    ELSE <<>>

RECURSIVE MergeLoop(_, _, _, _, _, _)
\* the loop of get_formatted_runs from run i on; joined is "".join(output_segments)
MergeLoop(self, rs, i, current_merged_text, current_style, joined) ==
    IF i > Len(rs)
    THEN joined \o ClosedSegment(self, current_merged_text, current_style)
    ELSE LET next_run == rs[i]
             normalized_next_text == NormalizeWhitespaceInRunText(next_run.text)
         IN IF StylesAreCompatible(current_style, next_run.style)
            THEN MergeLoop(self, rs, i + 1, current_merged_text \o normalized_next_text,
                           current_style, joined)
            ELSE MergeLoop(self, rs, i + 1, normalized_next_text, next_run.style,
                           joined \o ClosedSegment(self, current_merged_text,
                                                   current_style))

\* Formatter.get_formatted_runs
GetFormattedRuns(self, rs) ==
    IF rs = <<>> THEN <<>>
    ELSE Strip(MergeLoop(self, rs, 2, NormalizeWhitespaceInRunText(rs[1].text),
                         rs[1].style, <<>>))

\* TextStyle and TextRun values
Style(code, math, strong, accent, color, link) ==
    [is_code |-> code, is_math |-> math, is_strong |-> strong, is_accent |-> accent,
     color_rgb |-> color, hyperlink |-> link]

StylePool == {
    Style(FALSE, FALSE, FALSE, FALSE, None, NoLink),
    Style(FALSE, FALSE, TRUE, FALSE, None, NoLink),
    Style(FALSE, FALSE, TRUE, TRUE, "ff0000", <<"u", "NBSP">>),
    Style(TRUE, FALSE, FALSE, FALSE, None, NoLink),
    Style(FALSE, TRUE, FALSE, FALSE, None, NoLink) }

TextPool == {
    <<>>,
    <<" ", "a">>,
    <<"b", "VT", "NBSP">>,
    <<"BQ", "$", "*", " ">> }

TextRuns == [text : TextPool, style : StylePool]

MaxRuns == 2

RunLists == UNION {[1..n -> TextRuns] : n \in 0..MaxRuns}

RECURSIVE ConcatText(_)
\* "".join(run.text for run in runs)
ConcatText(rs) == IF rs = <<>> THEN <<>> ELSE Head(rs).text \o ConcatText(Tail(rs))

UniformStyle(rs) == \A i \in 1..Len(rs) : rs[i].style = rs[1].style

NoResult == [done |-> FALSE, text |-> <<>>]

\* TextStyle(): the default style
PlainStyle == Style(FALSE, FALSE, FALSE, FALSE, None, NoLink)

NoReformat == [done |-> FALSE, style |-> PlainStyle, text |-> <<>>]

\* the styles a caller gives the run it feeds back
RefeedStyles == {
    PlainStyle,
    Style(FALSE, FALSE, TRUE, FALSE, None, NoLink),
    Style(TRUE, FALSE, FALSE, FALSE, None, NoLink) }

\* get_formatted_runs(runs) for the content of one element
FormatRuns ==
    /\ formatter \in {"base", "marp"}
    /\ ~formatted.done
    /\ formatted' =
          [done |-> TRUE,
           text |-> GetFormattedRuns(
                        FormatterOf(formatter, disable_escaping, disable_color), runs)]
    /\ UNCHANGED <<formatter, disable_escaping, disable_color, runs, formatted_single,
                   reformatted, notRunsVars>>

\* get_formatted_runs of one run that carries the concatenated raw text of runs
\* of one style
FormatConcatenatedRun ==
    /\ formatter \in {"base", "marp"}
    /\ formatted.done
    /\ ~formatted_single.done
    /\ runs # <<>>
    /\ UniformStyle(runs)
    /\ formatted_single' =
          [done |-> TRUE,
           text |-> GetFormattedRuns(
                        FormatterOf(formatter, disable_escaping, disable_color),
                        <<[text |-> ConcatText(runs), style |-> runs[1].style]>>)]
    /\ UNCHANGED <<formatter, disable_escaping, disable_color, runs, formatted,
                   reformatted, notRunsVars>>

\* get_formatted_runs of one run whose text is the string get_formatted_runs
\* returned for runs, under a style of the caller's choice
ReformatOutput ==
    /\ formatter \in {"base", "marp"}
    /\ formatted.done
    /\ ~reformatted.done
    /\ \E style \in RefeedStyles :
          reformatted' =
              [done |-> TRUE,
               style |-> style,
               text |-> GetFormattedRuns(
                            FormatterOf(formatter, disable_escaping, disable_color),
                            <<[text |-> formatted.text, style |-> style]>>)]
    /\ UNCHANGED <<formatter, disable_escaping, disable_color, runs, formatted,
                   formatted_single, notRunsVars>>

-----------------------------------------------------------------------------
(* Inline code: get_inline_code of the shared Formatter and of             *)
(* MarpFormatter on the text of one code run.                              *)

CodeChars == {"BQ", "a", " "}

MaxCodeLen == 4

CodeTexts == UNION {[1..n -> CodeChars] : n \in 0..MaxCodeLen}

NoCode == <<"unset">>

\* Formatter.get_inline_code(text)
GetInlineCodeOfText ==
    /\ inline_code = NoCode
    /\ inline_code' = BaseGetInlineCode(code_text)
    /\ UNCHANGED <<code_text, marp_inline_code, disable_escaping, notCodeVars>>

\* MarpFormatter.get_inline_code(text)
MarpGetInlineCodeOfText ==
    /\ marp_inline_code = NoCode
    /\ marp_inline_code' = MarpGetInlineCode(disable_escaping, code_text)
    /\ UNCHANGED <<code_text, inline_code, disable_escaping, notCodeVars>>

-----------------------------------------------------------------------------
(* Beamer lists: put_list, put_list_footer and the loop of                 *)
(* _put_elements_on_slide, inside the frames BeamerFormatter.output opens  *)
(* and closes.  An entry of list_tex is what one write put out (tok), the  *)
(* value of current_list_level after it (level) and, for an item, the      *)
(* level the element asked for (arg).                                      *)

MAX_LATEX_LIST_LEVEL == 3

Wrote(tok, level, arg) == [tok |-> tok, level |-> level, arg |-> arg]

\* the \begin{itemize} of the first while loop of put_list, from level cur up
\* to level target
RECURSIVE OpenItemize(_, _)
OpenItemize(cur, target) ==
    IF cur < target
    THEN <<Wrote("begin_itemize", cur + 1, NoInt)>> \o OpenItemize(cur + 1, target)
    ELSE <<>>

\* the \end{itemize} of the second while loop of put_list and of
\* put_list_footer, from level cur down to level target
RECURSIVE CloseItemize(_, _)
CloseItemize(cur, target) ==
    IF cur > target
    THEN <<Wrote("end_itemize", cur - 1, NoInt)>> \o CloseItemize(cur - 1, target)
    ELSE <<>>

\* a plausible slip: the level is not clamped
BeamerPutListNoClamp(level, cur) ==
    LET target_latex_nest_level == level + 1
    IN [tex |-> OpenItemize(cur, target_latex_nest_level)
                \o CloseItemize(cur, target_latex_nest_level)
                \o <<Wrote("item", target_latex_nest_level, level)>>,
        current_list_level |-> target_latex_nest_level]

\* BeamerFormatter.put_list(text, level) with current_list_level = cur
BeamerPutList(level, cur) ==
    LET clamped_parser_level == Min(level, MAX_LATEX_LIST_LEVEL - 1)
        target_latex_nest_level == clamped_parser_level + 1
    IN [tex |-> OpenItemize(cur, target_latex_nest_level)
                \o CloseItemize(cur, target_latex_nest_level)
                \o <<Wrote("item", target_latex_nest_level, level)>>,
        current_list_level |-> target_latex_nest_level]

\* BeamerFormatter.put_list_footer
BeamerPutListFooter(cur) ==
    [tex |-> CloseItemize(cur, 0), current_list_level |-> 0]

\* the levels ListItem elements carry
ListLevels == {0, 1, 2, 3, 5}

MaxListSteps == 6

\* \begin{frame} of BeamerFormatter.output
BeamerBeginFrame ==
    /\ list_pc = "between"
    /\ list_steps < MaxListSteps
    /\ list_pc' = "frame"
    /\ list_tex' = Append(list_tex, Wrote("begin_frame", current_list_level, NoInt))
    /\ list_steps' = list_steps + 1
    /\ UNCHANGED <<current_list_level, last_element_type, notBeamerListVars>>

\* a call of _put_elements_on_slide from inside the frame
BeamerStartPutElements ==
    /\ list_pc = "frame"
    /\ list_steps < MaxListSteps
    /\ list_pc' = "elements"
    /\ last_element_type' = None
    /\ list_steps' = list_steps + 1
    /\ UNCHANGED <<current_list_level, list_tex, notBeamerListVars>>

\* one round of the loop of _put_elements_on_slide, for a ListItem
BeamerPutListItemElement ==
    /\ list_pc = "elements"
    /\ list_steps < MaxListSteps
    /\ \E level \in ListLevels :
          LET r == BeamerPutList(level, current_list_level)
          IN /\ list_tex' = list_tex \o r.tex
             /\ current_list_level' = r.current_list_level
    /\ last_element_type' = "ListItem"
    /\ list_steps' = list_steps + 1
    /\ UNCHANGED <<list_pc, notBeamerListVars>>

\* one round of the loop of _put_elements_on_slide, for an element that is
\* no ListItem
BeamerPutOtherElement ==
    /\ list_pc = "elements"
    /\ list_steps < MaxListSteps
    /\ LET f == IF last_element_type = "ListItem"
                THEN BeamerPutListFooter(current_list_level)
                ELSE [tex |-> <<>>, current_list_level |-> current_list_level]
       IN /\ list_tex' = list_tex \o f.tex
                          \o <<Wrote("para", f.current_list_level, NoInt)>>
          /\ current_list_level' = f.current_list_level
    /\ last_element_type' = "Paragraph"
    /\ list_steps' = list_steps + 1
    /\ UNCHANGED <<list_pc, notBeamerListVars>>

\* the end of _put_elements_on_slide
BeamerEndPutElements ==
    /\ list_pc = "elements"
    /\ LET f == IF last_element_type = "ListItem"
                THEN BeamerPutListFooter(current_list_level)
                ELSE [tex |-> <<>>, current_list_level |-> current_list_level]
       IN /\ list_tex' = list_tex \o f.tex
          /\ current_list_level' = f.current_list_level
    /\ list_pc' = "frame"
    /\ UNCHANGED <<last_element_type, list_steps, notBeamerListVars>>

\* \end{frame} of BeamerFormatter.output
BeamerEndFrame ==
    /\ list_pc = "frame"
    /\ list_pc' = "between"
    /\ list_tex' = Append(list_tex, Wrote("end_frame", current_list_level, NoInt))
    /\ UNCHANGED <<current_list_level, last_element_type, list_steps, notBeamerListVars>>

-----------------------------------------------------------------------------
(* Beamer frames: the loop of BeamerFormatter.output over the slides of a  *)
(* presentation of General slides without notes.  frame_tex holds one word *)
(* for each write: the frame, the frame title, the font group, the columns *)
(* and, for an element, its type (the itemize environments of list items   *)
(* are the Beamer lists above).                                            *)

\* _put_elements_on_slide(elements)
PutElementsOnSlide(elements) == [i \in 1..Len(elements) |-> elements[i].type]

\* font_scale_prefix, written when current_font_scale_opened
FontScalePrefix(density_class_) ==
    IF density_class_ = "small" THEN <<"font_small">>
    ELSE IF density_class_ = "smaller" THEN <<"font_footnotesize">>
    ELSE IF density_class_ = "smallest" THEN <<"font_scriptsize">>
    ELSE <<>>

\* font_scale_suffix, written when current_font_scale_opened
FontScaleSuffix(density_class_) ==
    IF density_class_ \in {"small", "smaller", "smallest"} THEN <<"font_close">>
    ELSE <<>>

\* what one round of the loop of BeamerFormatter.output writes for a slide
BeamerFrame(elements, is_last_slide, cfg_width, cfg_image_width) ==
    IF elements = <<>>
    THEN IF ~is_last_slide THEN <<"begin_frame", "end_frame">> ELSE <<>>
    ELSE LET plan == BeamerSlidePlan(elements, cfg_width, cfg_image_width)
         IN <<"begin_frame">>
            \o (IF plan.title # <<>> /\ plan.title[1].len > 0
                THEN <<"frametitle">> ELSE <<>>)
            \o FontScalePrefix(plan.class)
            \o PutElementsOnSlide(plan.floated)
            \o (IF plan.split
                THEN <<"begin_columns", "column">> \o PutElementsOnSlide(plan.first)
                     \o <<"column">> \o PutElementsOnSlide(plan.second)
                     \o <<"end_columns">>
                ELSE PutElementsOnSlide(plan.other))
            \o FontScaleSuffix(plan.class)
            \o <<"end_frame">>

\* the slides presentations are made of
FrameSlides == {
    <<>>,
    <<E_Title>>,
    <<E_Title, E_Code11>>,
    <<E_ImageLeft, E_Para30, E_Item>>,
    <<E_Title, E_Code17, E_Item>>,
    <<E_Code11>> }

MaxSlides == 3

Presentations == UNION {[1..n -> FrameSlides] : n \in 0..MaxSlides}

\* one round of the loop over presentation_data.slides
BeamerOutputFrame ==
    /\ ~frame_closed
    /\ frame_idx < Len(frame_pres)
    /\ frame_tex' = frame_tex
                    \o BeamerFrame(frame_pres[frame_idx + 1],
                                   frame_idx + 1 = Len(frame_pres),
                                   slide_width_px, image_width)
    /\ frame_idx' = frame_idx + 1
    /\ in_frame' = FALSE
    /\ UNCHANGED <<frame_pres, frame_closed, notBeamerFrameVars>>

\* after the loop: \end{document} and close
BeamerEndDocument ==
    /\ ~frame_closed
    /\ frame_idx = Len(frame_pres)
    /\ frame_tex' = Append(frame_tex, "end_document")
    /\ frame_closed' = TRUE
    /\ UNCHANGED <<frame_pres, frame_idx, in_frame, notBeamerFrameVars>>

-----------------------------------------------------------------------------
(* Beamer density: BeamerFormatter._get_slide_density_class applied to the *)
(* line count the shared classifier is applied to.                         *)

\* BeamerFormatter._get_slide_density_class(line_count)
BeamerClassifyDensity ==
    /\ beamer_density_class = "unset"
    /\ beamer_density_class' = BeamerGetSlideDensityClass(line_count)
    /\ UNCHANGED notBeamerDensityVars

-----------------------------------------------------------------------------
(* Emission order: one General slide through the element loop of the       *)
(* shared Formatter.output, next to the Marp and the Beamer output of the  *)
(* same slide.                                                             *)

NoWalk == [done |-> FALSE, elements |-> <<>>]

\* the elements in the order `for element in slide.elements` hands them to
\* the put_* primitives
WalkElements(elements) == [i \in 1..Len(elements) |-> elements[i]]

\* the element loop of Formatter.output for the slide
BaseOutputSlide ==
    /\ ~walked.done
    /\ walked' = [done |-> TRUE, elements |-> WalkElements(slide)]
    /\ UNCHANGED notOrderVars

\* the elements in the order MarpFormatter.output and BeamerFormatter.output
\* hand them to _put_elements_on_slide: title, floated images, other content
\* (in two halves when split)
EmittedOrder(plan) == plan.title \o plan.floated \o plan.first \o plan.second

\* the elements of the slides whose order is looked at
OrderElementPool == {E_Title, E_Para30, E_Item, E_ImageLeft, E_ImageCenter}

OrderSlides == UNION {[1..n -> OrderElementPool] : n \in 0..MaxSlideElements}

-----------------------------------------------------------------------------
(* Conversion: the loop of convert (entry.py) over format_configs, for a   *)
(* configuration that asks for some dialects, some of whose output files   *)
(* open() cannot open.                                                     *)

\* format_configs, by suffix
FormatConfigs == <<"md", "wiki", "mdk", "qmd", "marp", "beamer">>

Dialects == {FormatConfigs[i] : i \in 1..Len(FormatConfigs)}

\* one round of the loop: formatter_class(config).output(ast) for a dialect
\* the configuration asks for; Formatter.__init__ opens the output file, and
\* nothing catches what open raises
ConvertFormat ==
    /\ convert_status = "running"
    /\ format_idx < Len(FormatConfigs)
    /\ LET suffix == FormatConfigs[format_idx + 1]
       IN IF suffix \notin requested
          THEN /\ format_idx' = format_idx + 1
               /\ UNCHANGED <<produced, convert_status>>
          ELSE IF suffix \in unopenable
          THEN /\ convert_status' = "raised"
               /\ UNCHANGED <<format_idx, produced>>
          ELSE /\ produced' = produced \cup {suffix}
               /\ format_idx' = format_idx + 1
               /\ UNCHANGED convert_status
    /\ UNCHANGED <<requested, unopenable, notConvertVars>>

\* the end of the loop: convert returns
ConvertReturn ==
    /\ convert_status = "running"
    /\ format_idx = Len(FormatConfigs)
    /\ convert_status' = "returned"
    /\ UNCHANGED <<requested, unopenable, format_idx, produced, notConvertVars>>

-----------------------------------------------------------------------------
(* Shared walker: the list bookkeeping of Formatter.output (base.py) over  *)
(* the elements of the slides of a presentation, one after the other.      *)
(* last_element_type is set once before the loop over the slides.          *)

MaxWalkerSteps == 6

\* one round of the element loop, for a ListItem
WalkListItem ==
    /\ walker_steps < MaxWalkerSteps
    /\ walker_calls' = walker_calls
                       \o (IF walker_last_element_type # "ListItem"
                           THEN <<"put_list_header">> ELSE <<>>)
                       \o <<"put_list">>
    /\ walker_last_element_type' = "ListItem"
    /\ walker_steps' = walker_steps + 1
    /\ UNCHANGED notWalkerVars

\* one round of the element loop, for an element that is no ListItem
WalkOtherElement ==
    /\ walker_steps < MaxWalkerSteps
    /\ walker_calls' = walker_calls
                       \o (IF walker_last_element_type = "ListItem"
                           THEN <<"put_list_footer">> ELSE <<>>)
                       \o <<"put_other">>
    /\ walker_last_element_type' = "Paragraph"
    /\ walker_steps' = walker_steps + 1
    /\ UNCHANGED notWalkerVars

\* the end of a slide, after its element loop
WalkEndOfSlide ==
    /\ walker_steps < MaxWalkerSteps
    /\ walker_calls' = walker_calls
                       \o (IF walker_last_element_type = "ListItem"
                           THEN <<"put_list_footer">> ELSE <<>>)
                       \o <<"end_of_slide">>
    /\ walker_steps' = walker_steps + 1
    /\ UNCHANGED <<walker_last_element_type, notWalkerVars>>

-----------------------------------------------------------------------------
(* MultiColumn slides: the branch of MarpFormatter.output,                 *)
(* BeamerFormatter.output and QuartoFormatter.output for a slide of type   *)
(* MultiColumn, under the default configuration.  A layout says whether    *)
(* the heuristic split was applied, which elements were written outside    *)
(* column regions (before), and the elements of each column region.        *)

NoLayout == [done |-> FALSE, heuristic_split |-> FALSE, before |-> <<>>,
             regions |-> <<>>]

\* [el for col in slide.columns for el in col]
FlattenColumns(columns) == Flatten(columns)

\* MarpFormatter.output for a MultiColumn slide: the slide is flattened and
\* goes the way of a General slide
MarpMultiColumnLayout(mc, cfg_width, cfg_image_width) ==
    LET initial_elements_for_slide == mc.preface \o FlattenColumns(mc.columns)
        plan == MarpSlidePlan(initial_elements_for_slide, cfg_width, cfg_image_width)
    IN [done |-> TRUE,
        heuristic_split |-> plan.split,
        before |-> plan.title \o plan.floated
                   \o (IF plan.split THEN <<>> ELSE plan.other),
        regions |-> IF plan.split THEN <<plan.first, plan.second>> ELSE <<>>]

\* BeamerFormatter.output for a MultiColumn slide: title and floated images
\* are taken from the preface, the columns follow in a columns environment
BeamerMultiColumnLayout(mc, cfg_width, cfg_image_width) ==
    LET original == PresOriginalSlideWidth(cfg_width)
        initial_all_elements_for_density == mc.preface \o FlattenColumns(mc.columns)
        sep == SeparateSlideElements(mc.preface, cfg_image_width, original, original)
    IN IF initial_all_elements_for_density = <<>>
       THEN [NoLayout EXCEPT !.done = TRUE]
       ELSE [done |-> TRUE,
             heuristic_split |-> FALSE,
             before |-> sep.title \o sep.floated \o sep.other,
             regions |-> mc.columns]

\* QuartoFormatter.output for a MultiColumn slide
QuartoMultiColumnLayout(mc) ==
    [done |-> TRUE,
     heuristic_split |-> FALSE,
     before |-> mc.preface,
     regions |-> mc.columns]

\* the prefaces and columns MultiColumn slides are made of
McPrefaces == {<<>>, <<E_Title>>, <<E_Title, E_Para30, E_ImageLeft>>}

McColumns == {<<E_Item>>, <<E_Item, E_Item>>, <<E_Code17>>, <<E_Para30, E_Table11>>}

MultiColumnSlides ==
    [preface : McPrefaces, columns : UNION {[1..n -> McColumns] : n \in {0, 2, 3}}]

MarpOutputMultiColumn ==
    /\ ~mc_marp.done
    /\ mc_marp' = MarpMultiColumnLayout(mc_slide, slide_width_px, image_width)
    /\ UNCHANGED <<mc_slide, mc_beamer, mc_quarto, notMultiColumnVars>>

BeamerOutputMultiColumn ==
    /\ ~mc_beamer.done
    /\ mc_beamer' = BeamerMultiColumnLayout(mc_slide, slide_width_px, image_width)
    /\ UNCHANGED <<mc_slide, mc_marp, mc_quarto, notMultiColumnVars>>

QuartoOutputMultiColumn ==
    /\ ~mc_quarto.done
    /\ mc_quarto' = QuartoMultiColumnLayout(mc_slide)
    /\ UNCHANGED <<mc_slide, mc_marp, mc_beamer, notMultiColumnVars>>

-----------------------------------------------------------------------------
(* Title trackers side by side: the Title case of Formatter.output and of  *)
(* put_elements in QuartoFormatter.output, fed the same Title elements.    *)

\* the characters of QuartoFormatter.esc_re1: \ * ` ! _ { } [ ] ( ) # | and
\* the range from + to . (+ , - .)
QuartoEscChars ==
    {"\\", "*", "BQ", "!", "_", "{", "}", "[", "]", "(", ")", "#", "|",
     "+", ",", "-", "."}

\* re.sub(self.esc_re1, self.esc_repl, text) of QuartoFormatter
QuartoEscRe1(s) ==
    Flatten([i \in 1..Len(s) |->
                IF s[i] \in QuartoEscChars THEN <<"\\", s[i]>> ELSE <<s[i]>>])

\* QuartoFormatter.get_escaped
QuartoGetEscaped(noesc, text) ==
    IF noesc THEN text
    ELSE MarpEscRe2(QuartoEscRe1(ReplaceVtFfBySpace(text)))

\* case ElementType.Title of put_elements in QuartoFormatter.output (content
\* is a str); last is <<>> while last_title_tracker['content'] is None
QuartoTitleCase(last, keep, noesc, e) ==
    LET title_text == Strip(QuartoGetEscaped(noesc, e.content))
    IN IF title_text = <<>> THEN [put |-> <<>>, last |-> last]
       ELSE [put |-> IF IsSimilarToLast(last, title_text, e.level)
                     THEN IF keep THEN <<title_text \o ContSuffix, e.level>>
                          ELSE <<>>
                     ELSE <<title_text, e.level>>,
             last |-> <<title_text, e.level>>]

\* what a tracker did with a title of text title_text: wrote it plain, wrote
\* it with the suffix, or wrote nothing
TitleDecision(put, title_text) ==
    IF title_text = <<>> THEN "empty"
    ELSE IF put = <<>> THEN "suppress"
    ELSE IF put[1] = title_text \o ContSuffix THEN "cont"
    ELSE "plain"

MaxTitles == 3

\* both walkers reach the same Title element
FeedTitle ==
    /\ tracker_count < MaxTitles
    /\ \E e \in TitleElements :
          LET b == BaseTitleCase(base_tracker, tracker_keep, e)
              q == QuartoTitleCase(quarto_tracker, tracker_keep, tracker_noesc, e)
          IN /\ base_tracker' = b.last
             /\ quarto_tracker' = q.last
             /\ tracker_decisions' =
                    <<TitleDecision(b.put, Strip(e.content)),
                      TitleDecision(q.put,
                                    Strip(QuartoGetEscaped(tracker_noesc, e.content)))>>
             /\ tracker_fed' =
                    LET t == <<Strip(e.content), e.level>>
                    IN IF t[1] = <<>> THEN tracker_fed
                       ELSE IF t = tracker_fed.title
                            THEN [title |-> t, run |-> tracker_fed.run + 1]
                            ELSE [title |-> t, run |-> 1]
    /\ tracker_count' = tracker_count + 1
    /\ UNCHANGED <<tracker_keep, tracker_noesc, notTrackerVars>>

-----------------------------------------------------------------------------
(* Runs in the dialects that override the merger or its primitives:        *)
(* BeamerFormatter.get_formatted_runs, and the shared merger with the      *)
(* primitives of WikiFormatter followed by WikiFormatter.put_table.        *)

\* BeamerFormatter._format_text_with_delimiters on a str
BeamerFormatTextWithDelimiters(text, start_delim, end_delim) ==
    start_delim \o text \o end_delim

\* BeamerFormatter.get_inline_code; esc_repl with verbatim_like gives the
\* replacements of esc_map
BeamerGetInlineCode(noesc, text) ==
    <<"\\", "texttt", "{">> \o BeamerGetEscaped(noesc, text) \o <<"}">>

\* BeamerFormatter.get_accent and get_strong
BeamerGetAccent(text) ==
    BeamerFormatTextWithDelimiters(text, <<"\\", "textit", "{">>, <<"}">>)
BeamerGetStrong(text) ==
    BeamerFormatTextWithDelimiters(text, <<"\\", "textbf", "{">>, <<"}">>)

\* BeamerFormatter.get_colored; the three numbers of rgb are one token
BeamerGetColored(text, rgb) ==
    <<"\\", "textcolor", "[", "RGB", "]", "{", rgb, "}", "{">> \o text \o <<"}">>

\* str(url).replace('\\', '/')
BackslashToSlash(url) ==
    [i \in 1..Len(url) |-> IF url[i] = "\\" THEN "/" ELSE url[i]]

\* BeamerFormatter.get_hyperlink; esc_repl with is_url gives the replacements
\* of esc_map for every character but the backslash, which is gone by then
BeamerGetHyperlink(noesc, text, url) ==
    <<"\\", "href", "{">> \o BeamerGetEscaped(noesc, BackslashToSlash(url))
    \o <<"}", "{">> \o text \o <<"}">>

\* the body of the loop of BeamerFormatter.get_formatted_runs for one run
BeamerFormattedRun(noesc, run) ==
    LET escaped == BeamerGetEscaped(noesc, run.text)
        styled ==
            IF run.style.is_code THEN BeamerGetInlineCode(noesc, run.text)
            ELSE LET emph == IF run.style.is_accent /\ run.style.is_strong
                             THEN BeamerGetAccent(BeamerGetStrong(escaped))
                             ELSE IF run.style.is_strong THEN BeamerGetStrong(escaped)
                             ELSE IF run.style.is_accent THEN BeamerGetAccent(escaped)
                             ELSE escaped
                 IN IF run.style.color_rgb # None
                    THEN BeamerGetColored(emph, run.style.color_rgb) ELSE emph
    IN IF run.style.hyperlink # NoLink
       THEN BeamerGetHyperlink(noesc, styled, run.style.hyperlink)
       ELSE styled

\* BeamerFormatter.get_formatted_runs
BeamerGetFormattedRuns(noesc, rs) ==
    IF rs = <<>> THEN <<>>
    ELSE Flatten([i \in 1..Len(rs) |-> BeamerFormattedRun(noesc, rs[i])])

\* x.replace("\n", "<br />") of put_table
ReplaceNewline(x) ==
    Flatten([i \in 1..Len(x) |->
                IF x[i] = "LF" THEN <<"<", "b", "r", " ", "/", ">">> ELSE <<x[i]>>])

\* the text WikiFormatter.put_table writes after '| ' for one cell
WikiTableCell(noesc, cell) == WikiGetEscaped(noesc, ReplaceNewline(cell))

DialectStylePool == {
    Style(FALSE, FALSE, FALSE, FALSE, None, NoLink),
    Style(FALSE, FALSE, TRUE, FALSE, None, NoLink),
    Style(FALSE, FALSE, FALSE, TRUE, None, NoLink),
    Style(FALSE, FALSE, FALSE, FALSE, None, <<"u", "_">>),
    Style(TRUE, FALSE, FALSE, FALSE, None, <<"u", "_">>),
    Style(FALSE, TRUE, FALSE, FALSE, None, NoLink) }

DialectTextPool == {
    <<>>,
    <<" ", "a", " ">>,
    <<"[", "$", "x", "$">> }

DialectTextRuns == [text : DialectTextPool, style : DialectStylePool]

MaxDialectRuns == 2

DialectRunLists == UNION {[1..n -> DialectTextRuns] : n \in 0..MaxDialectRuns}

\* BeamerFormatter.get_formatted_runs(runs) for the content of one element
BeamerFormatRuns ==
    /\ dialect = "beamer"
    /\ ~dialect_out.done
    /\ dialect_out' = [done |-> TRUE,
                       text |-> BeamerGetFormattedRuns(dialect_noesc, dialect_runs)]
    /\ UNCHANGED <<dialect, dialect_noesc, dialect_runs, dialect_cell, notDialectVars>>

\* get_formatted_runs(cell) of Formatter.output for one cell of a table, in a
\* WikiFormatter
WikiFormatRuns ==
    /\ dialect = "wiki"
    /\ ~dialect_out.done
    /\ dialect_out' = [done |-> TRUE,
                       text |-> GetFormattedRuns(
                                    FormatterOf("wiki", dialect_noesc, FALSE),
                                    dialect_runs)]
    /\ UNCHANGED <<dialect, dialect_noesc, dialect_runs, dialect_cell, notDialectVars>>

\* WikiFormatter.put_table on the table of formatted cells
WikiPutTable ==
    /\ dialect = "wiki"
    /\ dialect_out.done
    /\ ~dialect_cell.done
    /\ dialect_cell' = [done |-> TRUE,
                        text |-> WikiTableCell(dialect_noesc, dialect_out.text)]
    /\ UNCHANGED <<dialect, dialect_noesc, dialect_runs, dialect_out, notDialectVars>>

-----------------------------------------------------------------------------
(* Specifications.  Each one starts the part of the engine it runs and     *)
(* leaves the other parts idle.                                            *)

DensityIdle == line_count = 0 /\ density_class = "unset"

TitleIdle ==
    /\ formatter = "base"
    /\ keep_similar_titles = FALSE
    /\ disable_escaping = FALSE
    /\ last_title_info = <<>>
    /\ title_elem = NoElement
    /\ title_put = <<>>

ImageIdle ==
    /\ slide_width_px = NoInt
    /\ image_width = NoInt
    /\ disable_image_wrapping = FALSE
    /\ image = [left_px |-> NoInt, display_width_px |-> NoInt, position_hint |-> None]
    /\ hint_target = 0
    /\ hint_result = "unset"
    /\ marp_placement = "unset"
    /\ beamer_placement = "unset"

SplitIdle == slide = <<>> /\ marp_plan = NoPlan /\ beamer_plan = NoPlan

CodeIdle == code_text = <<>> /\ inline_code = NoCode /\ marp_inline_code = NoCode

BeamerListIdle ==
    /\ list_pc = "between"
    /\ current_list_level = 0
    /\ last_element_type = None
    /\ list_tex = <<>>
    /\ list_steps = 0

BeamerFrameIdle ==
    /\ frame_pres = <<>>
    /\ frame_idx = 0
    /\ frame_tex = <<>>
    /\ in_frame = FALSE
    /\ frame_closed = FALSE

BeamerDensityIdle == beamer_density_class = "unset"

OrderIdle == walked = NoWalk

ConvertIdle ==
    /\ requested = {}
    /\ unopenable = {}
    /\ format_idx = 0
    /\ produced = {}
    /\ convert_status = "idle"

WalkerIdle ==
    /\ walker_last_element_type = None
    /\ walker_calls = <<>>
    /\ walker_steps = 0

MultiColumnIdle ==
    /\ mc_slide = [preface |-> <<>>, columns |-> <<>>]
    /\ mc_marp = NoLayout
    /\ mc_beamer = NoLayout
    /\ mc_quarto = NoLayout

TrackerIdle ==
    /\ tracker_keep = FALSE
    /\ tracker_noesc = FALSE
    /\ base_tracker = <<>>
    /\ quarto_tracker = <<>>
    /\ tracker_decisions = <<>>
    /\ tracker_count = 0
    /\ tracker_fed = [title |-> <<>>, run |-> 0]

DialectIdle ==
    /\ dialect = "beamer"
    /\ dialect_noesc = FALSE
    /\ dialect_runs = <<>>
    /\ dialect_out = [done |-> FALSE, text |-> <<>>]
    /\ dialect_cell = [done |-> FALSE, text |-> <<>>]

LaterIdle ==
    /\ CodeIdle
    /\ BeamerListIdle
    /\ BeamerFrameIdle
    /\ BeamerDensityIdle
    /\ OrderIdle
    /\ ConvertIdle
    /\ WalkerIdle
    /\ MultiColumnIdle
    /\ TrackerIdle
    /\ DialectIdle

RunsIdle ==
    /\ disable_color = FALSE
    /\ runs = <<>>
    /\ formatted = NoResult
    /\ formatted_single = NoResult
    /\ reformatted = NoReformat

\* the classifier applied to one line count
InitDensity ==
    /\ line_count \in 0..MaxLineCount
    /\ density_class = "unset"
    /\ TitleIdle
    /\ ImageIdle
    /\ SplitIdle
    /\ RunsIdle
    /\ LaterIdle

NextDensity == ClassifyDensity

SpecDensity == InitDensity /\ [][NextDensity]_vars

\* one emitter, constructed with its configuration, walking Title elements
InitTitles ==
    /\ formatter \in Formatters
    /\ keep_similar_titles \in BOOLEAN
    /\ disable_escaping \in BOOLEAN
    /\ last_title_info = <<>>
    /\ title_elem = NoElement
    /\ title_put = <<>>
    /\ DensityIdle
    /\ ImageIdle
    /\ SplitIdle
    /\ RunsIdle
    /\ LaterIdle

NextTitles == OutputTitle \/ MarpPutTitle \/ BeamerOutputFrameTitle

SpecTitles == InitTitles /\ [][NextTitles]_vars

\* one image element of a slide, under one configuration, handed to the
\* resolver and to the two put_image
InitImages ==
    /\ slide_width_px \in SlideWidthValues
    /\ image_width \in ImageWidthValues
    /\ disable_image_wrapping \in BOOLEAN
    /\ image \in ImageElements
    /\ hint_target = 0
    /\ hint_result = "unset"
    /\ marp_placement = "unset"
    /\ beamer_placement = "unset"
    /\ DensityIdle
    /\ TitleIdle
    /\ SplitIdle
    /\ RunsIdle
    /\ LaterIdle

NextImages == ResolveImagePositionHint \/ MarpPutImage \/ BeamerPutImage

SpecImages == InitImages /\ [][NextImages]_vars

\* one General slide, under the default configuration, through the Marp and
\* the Beamer output
InitSplit ==
    /\ slide \in Slides
    /\ marp_plan = NoPlan
    /\ beamer_plan = NoPlan
    /\ DensityIdle
    /\ TitleIdle
    /\ ImageIdle
    /\ RunsIdle
    /\ LaterIdle

NextSplit == MarpOutputSlide \/ BeamerOutputSlide

SpecSplit == InitSplit /\ [][NextSplit]_vars

\* a formatter that inherits the shared merger, constructed with its
\* configuration, and the runs of one element
InitRuns ==
    /\ formatter \in {"base", "marp"}
    /\ disable_escaping \in BOOLEAN
    /\ disable_color \in BOOLEAN
    /\ runs \in RunLists
    /\ formatted = NoResult
    /\ formatted_single = NoResult
    /\ reformatted = NoReformat
    /\ keep_similar_titles = FALSE
    /\ last_title_info = <<>>
    /\ title_elem = NoElement
    /\ title_put = <<>>
    /\ DensityIdle
    /\ ImageIdle
    /\ SplitIdle
    /\ LaterIdle

NextRuns == FormatRuns \/ FormatConcatenatedRun \/ ReformatOutput

SpecRuns == InitRuns /\ [][NextRuns]_vars

\* the parts that run before the later ones, idle
EarlierIdle == DensityIdle /\ TitleIdle /\ ImageIdle /\ SplitIdle /\ RunsIdle

\* the text of one code run, under one setting of disable_escaping
InitCode ==
    /\ code_text \in CodeTexts
    /\ inline_code = NoCode
    /\ marp_inline_code = NoCode
    /\ disable_escaping \in BOOLEAN
    /\ formatter = "base"
    /\ keep_similar_titles = FALSE
    /\ last_title_info = <<>>
    /\ title_elem = NoElement
    /\ title_put = <<>>
    /\ DensityIdle
    /\ ImageIdle
    /\ SplitIdle
    /\ RunsIdle
    /\ BeamerListIdle
    /\ BeamerFrameIdle
    /\ BeamerDensityIdle
    /\ OrderIdle
    /\ ConvertIdle
    /\ WalkerIdle
    /\ MultiColumnIdle
    /\ TrackerIdle
    /\ DialectIdle

NextCode == GetInlineCodeOfText \/ MarpGetInlineCodeOfText

SpecCode == InitCode /\ [][NextCode]_vars

\* a BeamerFormatter after __init__, before the first frame
InitBeamerLists ==
    /\ BeamerListIdle
    /\ EarlierIdle
    /\ CodeIdle
    /\ BeamerFrameIdle
    /\ BeamerDensityIdle
    /\ OrderIdle
    /\ ConvertIdle
    /\ WalkerIdle
    /\ MultiColumnIdle
    /\ TrackerIdle
    /\ DialectIdle

NextBeamerLists ==
    \/ BeamerBeginFrame
    \/ BeamerStartPutElements
    \/ BeamerPutListItemElement
    \/ BeamerPutOtherElement
    \/ BeamerEndPutElements
    \/ BeamerEndFrame

SpecBeamerLists == InitBeamerLists /\ [][NextBeamerLists]_vars

\* a presentation, and a BeamerFormatter with the default configuration whose
\* output has written the header
InitBeamerFrames ==
    /\ frame_pres \in Presentations
    /\ frame_idx = 0
    /\ frame_tex = <<>>
    /\ in_frame = FALSE
    /\ frame_closed = FALSE
    /\ EarlierIdle
    /\ CodeIdle
    /\ BeamerListIdle
    /\ BeamerDensityIdle
    /\ OrderIdle
    /\ ConvertIdle
    /\ WalkerIdle
    /\ MultiColumnIdle
    /\ TrackerIdle
    /\ DialectIdle

NextBeamerFrames == BeamerOutputFrame \/ BeamerEndDocument

SpecBeamerFrames == InitBeamerFrames /\ [][NextBeamerFrames]_vars

\* one line count, handed to the shared and to the Beamer classifier
InitBeamerDensity ==
    /\ line_count \in 0..MaxLineCount
    /\ density_class = "unset"
    /\ beamer_density_class = "unset"
    /\ TitleIdle
    /\ ImageIdle
    /\ SplitIdle
    /\ RunsIdle
    /\ CodeIdle
    /\ BeamerListIdle
    /\ BeamerFrameIdle
    /\ OrderIdle
    /\ ConvertIdle
    /\ WalkerIdle
    /\ MultiColumnIdle
    /\ TrackerIdle
    /\ DialectIdle

NextBeamerDensity == ClassifyDensity \/ BeamerClassifyDensity

SpecBeamerDensity == InitBeamerDensity /\ [][NextBeamerDensity]_vars

\* one General slide, under the default configuration, through the shared,
\* the Marp and the Beamer output
InitOrder ==
    /\ slide \in OrderSlides
    /\ marp_plan = NoPlan
    /\ beamer_plan = NoPlan
    /\ walked = NoWalk
    /\ DensityIdle
    /\ TitleIdle
    /\ ImageIdle
    /\ RunsIdle
    /\ CodeIdle
    /\ BeamerListIdle
    /\ BeamerFrameIdle
    /\ BeamerDensityIdle
    /\ ConvertIdle
    /\ WalkerIdle
    /\ MultiColumnIdle
    /\ TrackerIdle
    /\ DialectIdle

NextOrder == BaseOutputSlide \/ MarpOutputSlide \/ BeamerOutputSlide

SpecOrder == InitOrder /\ [][NextOrder]_vars

\* convert after parsing, before the loop over format_configs
InitConvert ==
    /\ requested \in SUBSET Dialects
    /\ unopenable \in SUBSET Dialects
    /\ format_idx = 0
    /\ produced = {}
    /\ convert_status = "running"
    /\ EarlierIdle
    /\ CodeIdle
    /\ BeamerListIdle
    /\ BeamerFrameIdle
    /\ BeamerDensityIdle
    /\ OrderIdle
    /\ WalkerIdle
    /\ MultiColumnIdle
    /\ TrackerIdle
    /\ DialectIdle

NextConvert == ConvertFormat \/ ConvertReturn

SpecConvert == InitConvert /\ [][NextConvert]_vars

\* Formatter.output before the loop over the slides
InitWalker ==
    /\ walker_last_element_type = None
    /\ walker_calls = <<>>
    /\ walker_steps = 0
    /\ EarlierIdle
    /\ CodeIdle
    /\ BeamerListIdle
    /\ BeamerFrameIdle
    /\ BeamerDensityIdle
    /\ OrderIdle
    /\ ConvertIdle
    /\ MultiColumnIdle
    /\ TrackerIdle
    /\ DialectIdle

NextWalker == WalkListItem \/ WalkOtherElement \/ WalkEndOfSlide

SpecWalker == InitWalker /\ [][NextWalker]_vars

-----------------------------------------------------------------------------
(* Claims on the density classifier (SpecDensity).                         *)

\* C1: for every line count n >= 0 the shared classifier gives no class for
\* n <= 8, small for 9..12, smaller for 13..18 and smallest for n >= 19.
C1_DensityBoundaries ==
    density_class # "unset" =>
        /\ (line_count <= 8) => density_class = None
        /\ (line_count >= 9 /\ line_count <= 12) => density_class = "small"
        /\ (line_count >= 13 /\ line_count <= 18) => density_class = "smaller"
        /\ (line_count >= 19) => density_class = "smallest"

C1_Witness == line_count = 19 /\ density_class = "smallest"

-----------------------------------------------------------------------------
(* Claims on the title tracker (SpecTitles).  A step of SpecTitles hands   *)
(* one Title element to the emitter: the unprimed title_elem and title_put *)
(* are the previous Title element and what was written for it, the primed  *)
(* ones the new element and what is written for it.                        *)

\* what a continuation-aware tracker writes for title text t at level lv when the
\* reference title is ref_text at ref_level
ContinuationPut(ref_text, ref_level, t, lv, keep) ==
    IF ref_level = lv /\ FuzzRatioAtCutoff(ref_text, t)
    THEN IF keep THEN <<t \o ContSuffix, lv>> ELSE <<>>
    ELSE <<t, lv>>

C6_MarpTitleContinuation ==
    [][ LET t == Strip(MarpGetEscaped(disable_escaping, title_elem'.content))
            lv == title_elem'.level
        IN (formatter = "marp" /\ t # <<>> /\ IsSimilarToLast(last_title_info, t, lv)) =>
              title_put' = IF keep_similar_titles THEN <<t \o ContSuffix, lv>> ELSE <<>>
      ]_vars

\* C7: in the Beamer emitter a leading title that is a near-duplicate (same
\* level, similarity >= 92) of the previously emitted title gets no \frametitle
\* with the plain repeated text: none without keep_similar_titles, the text
\* with the " (cont.)" suffix with it.
C7_BeamerFrameTitleContinuation ==
    [][ LET t == Strip(title_elem'.content)
            lv == title_elem'.level
            plain == BeamerGetEscaped(disable_escaping, t)
        IN (formatter = "beamer" /\ t # <<>> /\ IsSimilarToLast(last_title_info, t, lv)) =>
              /\ title_put' # <<plain, lv>>
              /\ title_put' = IF keep_similar_titles
                              THEN <<plain \o ContSuffix, lv>> ELSE <<>>
      ]_vars

-----------------------------------------------------------------------------
(* Claims on the image position resolver (SpecImages).                     *)

\* r is a nearest integer of num / den
IsNearest(r, num, den) == 2 * Abs(r * den - num) <= den

\* the integers nearest to num / den, for num >= 0
NearestTo(num, den) == {r \in {num \div den, (num \div den) + 1} : IsNearest(r, num, den)}

\* C8: without an explicit hint and with usable geometry, the resolver scales
\* left_px and the display width by target/original (to whole pixels), takes
\* the centre left + width/2 and answers left, center or right as the centre
\* lies inside the left, middle or right third of the target canvas; original
\* 1600, left 50, width 200, target 1280 gives left.
C8_ImageThirds ==
    (hint_result # "unset" /\ image.position_hint = None /\ image.left_px # NoInt) =>
        LET original == PresOriginalSlideWidth(slide_width_px)
            width == IF image.display_width_px = NoInt THEN image_width
                     ELSE image.display_width_px
        IN width # NoInt =>
             /\ \A sl \in NearestTo(image.left_px * hint_target, original) :
                \A sw \in NearestTo(width * hint_target, original) :
                   sw > 0 =>
                     /\ (6 * sl + 3 * sw < 2 * hint_target) => hint_result = "left"
                     /\ (6 * sl + 3 * sw > 2 * hint_target
                         /\ 6 * sl + 3 * sw < 4 * hint_target) => hint_result = "center"
                     /\ (6 * sl + 3 * sw > 4 * hint_target) => hint_result = "right"
             /\ (original = 1600 /\ image.left_px = 50 /\ width = 200
                 /\ hint_target = 1280) => hint_result = "left"

\* the example of the claim: 1600 px slide, left 50, width 200, Marp canvas
C8_Witness ==
    /\ slide_width_px = 1600
    /\ image = [left_px |-> 50, display_width_px |-> 200, position_hint |-> None]
    /\ hint_target = 1280
    /\ hint_result = "left"

-----------------------------------------------------------------------------
(* Claims on the column-split planner (SpecSplit).                         *)

\* the elements of the slide left after its leading Title is separated out
Body == IF slide # <<>> /\ Head(slide).type = "Title" THEN Tail(slide) ELSE slide

\* C3: the Marp emitter renders the body of a General slide as two column
\* regions iff the slide's density class is smaller or smallest, the body's
\* average line length (text chars / text lines) is below 40, the body has at
\* least two elements and none of them is a Table; Title + two 30-character
\* paragraphs + an 11-line code block is split, and is not split with a Table
\* in place of a paragraph.
C3_MarpSplitDecision ==
    (marp_plan.done /\ slide # <<>>) =>
        LET density == GetSlideDensityClass(GetSlideContentMetrics(slide).lines)
            m == GetSlideContentMetrics(Body)
        IN /\ marp_plan.split <=>
                /\ density \in {"smaller", "smallest"}
                /\ m.text_lines > 0 /\ m.text_chars < 40 * m.text_lines
                /\ Len(Body) >= 2
                /\ \A i \in 1..Len(Body) : Body[i].type # "Table"
           /\ slide = <<E_Title, E_Para30, E_Para30, E_Code11>> => marp_plan.split
           /\ slide = <<E_Title, E_Para30, E_Table11, E_Code11>> => ~marp_plan.split

C3_Witness ==
    /\ slide = <<E_Title, E_Para30, E_Para30, E_Code11>>
    /\ marp_plan.done
    /\ marp_plan.split
    /\ Len(marp_plan.first) = 2
    /\ Len(marp_plan.second) = 1

\* the elements of s that are not images floated left or right on a canvas of
\* width target
RECURSIVE WithoutFloated(_, _)
WithoutFloated(s, target) ==
    IF s = <<>> THEN <<>>
    ELSE LET h == GetImageEffectivePositionHint(
                      Head(s).img, image_width,
                      PresOriginalSlideWidth(slide_width_px), target)
         IN (IF Head(s).type = "Image" /\ h \in {"left", "right"}
             THEN <<>> ELSE <<Head(s)>>) \o WithoutFloated(Tail(s), target)

SplitInHalves(plan, body) ==
    (plan.done /\ plan.split) =>
        LET n == Len(body)
        IN /\ plan.first \o plan.second = body
           /\ 2 * Len(plan.first) \in {n, n + 1}
           /\ Len(plan.first) + Len(plan.second) = n
           /\ n = 3 => (Len(plan.first) = 2 /\ Len(plan.second) = 1)

\* C4: when the heuristic split occurs on a body of n elements (the slide's
\* elements after the leading Title and the floated images), the first column
\* gets the first ceil(n/2) and the second the remaining floor(n/2); the two
\* columns concatenated are the body, in the Marp and in the Beamer emitter.
C4_SplitHalves ==
    /\ SplitInHalves(marp_plan, WithoutFloated(Body, MARP_TARGET_WIDTH_PX))
    /\ SplitInHalves(beamer_plan,
                     WithoutFloated(Body, PresOriginalSlideWidth(slide_width_px)))

\* a body of three elements split 2 + 1 by both emitters
C4_Witness ==
    /\ slide = <<E_Title, E_Para30, E_Item, E_Code11>>
    /\ marp_plan.split /\ marp_plan.first = <<E_Para30, E_Item>>
    /\ marp_plan.second = <<E_Code11>>
    /\ beamer_plan.split /\ beamer_plan.first = <<E_Para30, E_Item>>
    /\ beamer_plan.second = <<E_Code11>>

\* C5: whenever the heuristic split occurs, the font scale emitted for the
\* slide is that of class small: the Marp _class directive is small and the
\* Beamer font-size group is \small.
C5_SplitDowngradesToSmall ==
    /\ (marp_plan.done /\ marp_plan.split) => marp_plan.class = "small"
    /\ (beamer_plan.done /\ beamer_plan.split) => beamer_plan.class = "small"

-----------------------------------------------------------------------------
(* Claims on the style-run merger (SpecRuns).                              *)

\* C10: for a non-empty list of runs that all carry one style, the shared
\* get_formatted_runs returns the string it returns for the single run whose
\* text is the concatenation of their texts, empty runs included.
C10_UniformRunsRoundTrip ==
    (formatted.done /\ formatted_single.done) => formatted.text = formatted_single.text

\* two strong runs, " a" and "b<VT><NBSP>", merged under one delimiter pair
C10_Witness ==
    /\ formatter = "base"
    /\ Len(runs) = 2
    /\ runs[1] = [text |-> <<" ", "a">>, style |-> Style(FALSE, FALSE, TRUE, FALSE, None, NoLink)]
    /\ runs[2] = [text |-> <<"b", "VT", "NBSP">>,
                  style |-> Style(FALSE, FALSE, TRUE, FALSE, None, NoLink)]
    /\ formatted.done /\ formatted_single.done
    /\ formatted.text = <<"_", "_", "a", "b", "_", "_">>

\* C11 (as stated): the text get_formatted_runs returned, fed back as one run
\* of a uniform style, is returned unchanged.
C11_MergerIdempotent ==
    reformatted.done => reformatted.text = formatted.text

HasNoNormalizedChar(text) ==
    \A i \in 1..Len(text) : text[i] \notin {"NBSP", "NNBSP", "VT"}

\* C11 (amended): the text get_formatted_runs returned, fed back as one run of
\* the default style, is returned unchanged when escaping is the identity
\* (the shared get_escaped, or disable_escaping) and the text holds none of
\* U+00A0, U+202F, U+000B.
C11_PlainRefeedReproduces ==
    (/\ reformatted.done
     /\ reformatted.style = PlainStyle
     /\ (formatter = "base" \/ disable_escaping)
     /\ HasNoNormalizedChar(formatted.text))
    => reformatted.text = formatted.text

\* a strong run and a code run with a backtick, escaping disabled in Marp:
\* the output carries markup and comes back unchanged from a plain run
C11_Witness ==
    /\ formatter = "marp"
    /\ disable_escaping
    /\ reformatted.done
    /\ reformatted.style = PlainStyle
    /\ formatted.text = <<"*", "*", "a", "*", "*", "BQ", "BQ", "$", "*", " ", "BQ">>
    /\ reformatted.text = formatted.text

-----------------------------------------------------------------------------
(* Claims on inline code (SpecCode).                                       *)

\* text[i..j] is all backticks
AllBackticks(text, i, j) == \A n \in i..j : text[n] = "BQ"

\* k, the length of the longest run of consecutive backticks of the text
LongestRun(text) ==
    SetMax({0} \cup {k \in 1..Len(text) :
                        \E i \in 1..(Len(text) - k + 1) : AllBackticks(text, i, i + k - 1)})

\* C12: for a non-empty code text whose longest backtick run has length k,
\* Formatter.get_inline_code puts a fence of exactly k+1 backticks before and
\* after the text (with one space of padding on both sides or none); the
\* empty text gives the empty output.
C12_FenceLength ==
    inline_code # NoCode =>
        IF code_text = <<>> THEN inline_code = <<>>
        ELSE LET fence == [i \in 1..(LongestRun(code_text) + 1) |-> "BQ"]
             IN \/ inline_code = fence \o code_text \o fence
                \/ inline_code = fence \o <<" ">> \o code_text \o <<" ">> \o fence

\* the text a`` b, longest run 2, between fences of 3
C12_Witness ==
    /\ code_text = <<"a", "BQ", "BQ", "a">>
    /\ inline_code = <<"BQ", "BQ", "BQ", "a", "BQ", "BQ", "a", "BQ", "BQ", "BQ">>

\* the length of the maximal backtick run that opens, and that closes, a string
LeadingRun(out) == SetMax({0} \cup {n \in 1..Len(out) : AllBackticks(out, 1, n)})
TrailingRun(out) ==
    SetMax({0} \cup {n \in 1..Len(out) : AllBackticks(out, Len(out) - n + 1, Len(out))})

\* out[i..i+n-1] is a maximal backtick run of length n
IsMaximalRun(out, i, n) ==
    /\ i >= 1 /\ i + n - 1 <= Len(out)
    /\ AllBackticks(out, i, i + n - 1)
    /\ (i > 1 => out[i - 1] # "BQ")
    /\ (i + n <= Len(out) => out[i + n] # "BQ")

\* out is an opening fence of n backticks, inner (alone or padded by one space
\* on both sides), and the closing fence of n backticks, with no maximal run
\* of n backticks before the closing one
ClosedOnlyAtEnd(out, inner) ==
    LET n == LeadingRun(out)
    IN /\ n >= 1
       /\ Len(out) >= 2 * n
       /\ IsMaximalRun(out, 1, n)
       /\ IsMaximalRun(out, Len(out) - n + 1, n)
       /\ \A i \in 2..(Len(out) - n) : ~IsMaximalRun(out, i, n)
       /\ SubSeq(out, n + 1, Len(out) - n) \in {inner, <<" ">> \o inner \o <<" ">>}

HasBacktick(text) == \E i \in 1..Len(text) : text[i] = "BQ"

\* C13: for a code text that holds backticks, the inline code emitted by the
\* shared get_inline_code and by the Marp get_inline_code opens with a
\* maximal backtick run of length n, the next maximal run of exactly n
\* backticks is the closing fence at the very end, and the whole text lies
\* between the two.
C13_NoPrematureClosure ==
    HasBacktick(code_text) =>
        /\ inline_code # NoCode => ClosedOnlyAtEnd(inline_code, code_text)
        /\ marp_inline_code # NoCode =>
              ClosedOnlyAtEnd(marp_inline_code,
                              MarpGetEscaped(disable_escaping, code_text))

-----------------------------------------------------------------------------
(* Claims on Beamer frames (SpecBeamerFrames).                             *)

Occurrences(tex, word) == Cardinality({i \in 1..Len(tex) : tex[i] = word})

\* the frames open after the first n writes
OpenFrames(tex, n) ==
    Occurrences(SubSeq(tex, 1, n), "begin_frame")
    - Occurrences(SubSeq(tex, 1, n), "end_frame")

\* the font groups open after the first n writes
OpenFontGroups(tex, n) ==
    Cardinality({i \in 1..n : tex[i] \in {"font_small", "font_footnotesize",
                                         "font_scriptsize"}})
    - Occurrences(SubSeq(tex, 1, n), "font_close")

\* C14: every slide the loop has dealt with, an empty slide and the last
\* slide included, has given exactly one frame: as many \begin{frame} as
\* \end{frame} as slides; frames are never nested; a font group opened in a
\* frame is closed before its \end{frame}; \end{document} is written once,
\* after the last frame.
C14_OneFramePerSlide ==
    /\ Occurrences(frame_tex, "begin_frame") = frame_idx
    /\ Occurrences(frame_tex, "end_frame") = frame_idx
    /\ \A n \in 0..Len(frame_tex) :
          /\ OpenFrames(frame_tex, n) \in {0, 1}
          /\ OpenFontGroups(frame_tex, n) \in {0, 1}
          /\ (n > 0 /\ frame_tex[n] = "end_frame")
                => OpenFontGroups(frame_tex, n) = 0
    /\ Occurrences(frame_tex, "end_document") = (IF frame_closed THEN 1 ELSE 0)
    /\ frame_closed => /\ frame_idx = Len(frame_pres)
                       /\ frame_tex[Len(frame_tex)] = "end_document"

\* the other parts of C14 hold: frames are not nested, font groups are closed
\* inside their frame, the document ends once, and a slide that is not an
\* empty last slide gives one frame
C14_FramesWellFormed ==
    /\ Occurrences(frame_tex, "begin_frame") = Occurrences(frame_tex, "end_frame")
    /\ Occurrences(frame_tex, "begin_frame") =
          IF frame_idx = Len(frame_pres) /\ frame_idx > 0
             /\ frame_pres[frame_idx] = <<>>
          THEN frame_idx - 1 ELSE frame_idx
    /\ \A n \in 0..Len(frame_tex) :
          /\ OpenFrames(frame_tex, n) \in {0, 1}
          /\ OpenFontGroups(frame_tex, n) \in {0, 1}
          /\ (n > 0 /\ frame_tex[n] = "end_frame")
                => OpenFontGroups(frame_tex, n) = 0
    /\ Occurrences(frame_tex, "end_document") = (IF frame_closed THEN 1 ELSE 0)

-----------------------------------------------------------------------------
(* Claims on the Beamer density classifier (SpecBeamerDensity).            *)

\* C16: with the default thresholds 8/12/18 the Beamer classifier gives every
\* line count the class the shared classifier gives it.
C16_BeamerDensityAgrees ==
    (density_class # "unset" /\ beamer_density_class # "unset")
        => beamer_density_class = density_class

-----------------------------------------------------------------------------
(* Claims on the emission order (SpecOrder).                               *)

GroupedSourceOrder(emitted, source, target) ==
    LET original == PresOriginalSlideWidth(slide_width_px)
        lead == IF source # <<>> /\ source[1].type = "Title" THEN 1 ELSE 0
        Floated(el) == IsFloated(el, image_width, original,
                                 IF target = NoInt THEN original ELSE target)
        NotFloated(el) == ~Floated(el)
        emitted_rest == SubSeq(emitted, lead + 1, Len(emitted))
        source_rest == SubSeq(source, lead + 1, Len(source))
    IN /\ Len(emitted) = Len(source)
       /\ SubSeq(emitted, 1, lead) = SubSeq(source, 1, lead)
       /\ SelectSeq(emitted_rest, Floated) = SelectSeq(source_rest, Floated)
       /\ SelectSeq(emitted_rest, NotFloated) = SelectSeq(source_rest, NotFloated)
       /\ \A i, j \in 1..Len(emitted_rest) :
             (i < j /\ Floated(emitted_rest[j])) => Floated(emitted_rest[i])

-----------------------------------------------------------------------------
(* Claims on the conversion (SpecConvert).                                 *)

\* C18: when convert has ended, by returning or by an error, every
\* requested dialect whose own output file can be opened has been produced,
\* whatever happened to the other requested dialects.
C18_OtherDialectsProduced ==
    convert_status \in {"returned", "raised"}
        => \A suffix \in requested \ unopenable : suffix \in produced

-----------------------------------------------------------------------------
(* Claims on the shared walker (SpecWalker).                               *)

IsHeaderOrFooter(call) == call \in {"put_list_header", "put_list_footer"}

\* C20: over any sequence of slides the list headers and list footers
\* alternate, a header first; every run of list items of a slide has one
\* header right before it and, once something follows it, one footer right
\* after it, also when the slide before ended with a list item or the next
\* slide starts with one.
C20_HeadersAndFootersAlternate ==
    LET marks == SelectSeq(walker_calls, IsHeaderOrFooter)
        n == Len(walker_calls)
    IN /\ \A i \in 1..Len(marks) :
             marks[i] = (IF i % 2 = 1 THEN "put_list_header" ELSE "put_list_footer")
       /\ \A i \in 1..n :
             /\ walker_calls[i] = "put_list"
                   => /\ i > 1
                      /\ walker_calls[i - 1] \in {"put_list_header", "put_list"}
                      /\ i < n => walker_calls[i + 1] \in {"put_list", "put_list_footer"}
             /\ walker_calls[i] = "put_list_header"
                   => (i < n => walker_calls[i + 1] = "put_list")
             /\ walker_calls[i] = "put_list_footer"
                   => (i > 1 /\ walker_calls[i - 1] = "put_list")

-----------------------------------------------------------------------------
(* Claims on Beamer lists (SpecBeamerLists).                               *)

CountTok(tex, tok) == Cardinality({i \in 1..Len(tex) : tex[i].tok = tok})

DepthBefore(tex, i) ==
    LET marks == {j \in 1..(i - 1) : tex[j].tok = "item" \/ tex[j].level = 0}
    IN IF marks = {} THEN 0 ELSE tex[SetMax(marks)].level

\* C21: whatever the levels of the list items, no item is written more than
\* one level deeper than the item before it in its list, nor the first item
\* of a list deeper than depth 1.
C21_DepthStepsByOne ==
    \A i \in 1..Len(list_tex) :
        list_tex[i].tok = "item"
            => list_tex[i].level <= DepthBefore(list_tex, i) + 1

\* one MultiColumn slide, under the default configuration, through the Marp,
\* the Beamer and the Quarto output
InitMultiColumn ==
    /\ mc_slide \in MultiColumnSlides
    /\ mc_marp = NoLayout
    /\ mc_beamer = NoLayout
    /\ mc_quarto = NoLayout
    /\ EarlierIdle
    /\ CodeIdle
    /\ BeamerListIdle
    /\ BeamerFrameIdle
    /\ BeamerDensityIdle
    /\ OrderIdle
    /\ ConvertIdle
    /\ WalkerIdle
    /\ TrackerIdle
    /\ DialectIdle

NextMultiColumn ==
    \/ MarpOutputMultiColumn
    \/ BeamerOutputMultiColumn
    \/ QuartoOutputMultiColumn

SpecMultiColumn == InitMultiColumn /\ [][NextMultiColumn]_vars

-----------------------------------------------------------------------------
(* Claims on MultiColumn slides (SpecMultiColumn).                         *)

\* a and b hold the same elements, each as often
SameElements(a, b) ==
    /\ Len(a) = Len(b)
    /\ \A i \in 1..Len(a) :
          Cardinality({j \in 1..Len(a) : a[j] = a[i]})
            = Cardinality({j \in 1..Len(b) : b[j] = a[i]})

\* the heuristic split was not applied, the elements of the preface were
\* written before the column regions, and each column has its own region
OwnColumnsKept(layout) ==
    /\ ~layout.heuristic_split
    /\ SameElements(layout.before, mc_slide.preface)
    /\ layout.regions = mc_slide.columns

\* C22: for a MultiColumn slide no emitter applies the heuristic two-way
\* split; the preface is written first and each column of the slide in a
\* column region of its own.
C22_MultiColumnKeepsItsColumns ==
    /\ (mc_marp.done /\ mc_slide.preface \o FlattenColumns(mc_slide.columns) # <<>>)
          => OwnColumnsKept(mc_marp)
    /\ (mc_beamer.done /\ mc_slide.preface \o FlattenColumns(mc_slide.columns) # <<>>)
          => OwnColumnsKept(mc_beamer)
    /\ mc_quarto.done => OwnColumnsKept(mc_quarto)

\* what holds of the Beamer and the Quarto output
C22_BeamerAndQuartoKeepColumns ==
    /\ (mc_beamer.done /\ mc_slide.preface \o FlattenColumns(mc_slide.columns) # <<>>)
          => OwnColumnsKept(mc_beamer)
    /\ mc_quarto.done => OwnColumnsKept(mc_quarto)

-----------------------------------------------------------------------------
(* The two title trackers (SpecTrackers).                                  *)

\* a Formatter and a QuartoFormatter of one configuration, before the first
\* title
InitTrackers ==
    /\ tracker_keep \in BOOLEAN
    /\ tracker_noesc \in BOOLEAN
    /\ base_tracker = <<>>
    /\ quarto_tracker = <<>>
    /\ tracker_decisions = <<>>
    /\ tracker_count = 0
    /\ tracker_fed = [title |-> <<>>, run |-> 0]
    /\ EarlierIdle
    /\ CodeIdle
    /\ BeamerListIdle
    /\ BeamerFrameIdle
    /\ BeamerDensityIdle
    /\ OrderIdle
    /\ ConvertIdle
    /\ WalkerIdle
    /\ MultiColumnIdle
    /\ DialectIdle

NextTrackers == FeedTitle

SpecTrackers == InitTrackers /\ [][NextTrackers]_vars

\* C23: for every sequence of titles and both settings of
\* keep_similar_titles, the Quarto tracker decides on each title (plain, with
\* the suffix, suppressed) as the tracker of the shared walker does, a third
\* and later title included.
C23_QuartoTrackerAgrees ==
    tracker_count > 0 => tracker_decisions[1] = tracker_decisions[2]

\* what does hold: the two trackers agree on the first two titles
C23_AgreeOnFirstTwoTitles ==
    tracker_count \in {1, 2} => tracker_decisions[1] = tracker_decisions[2]

\* C24: with keep_similar_titles, every repeat after the first occurrence of
\* a title (same text, same level, in a row) is written with the suffix by
\* the shared walker, the third and later ones as well as the second.
C24_EveryRepeatSuffixed ==
    (tracker_keep /\ tracker_fed.run >= 2 /\ tracker_decisions[1] # "empty")
        => tracker_decisions[1] = "cont"

-----------------------------------------------------------------------------
(* Runs in Beamer and in Wiki (SpecDialectRuns).                           *)

InitDialectRuns ==
    /\ dialect \in {"beamer", "wiki"}
    /\ dialect_noesc \in BOOLEAN
    /\ dialect_runs \in DialectRunLists
    /\ dialect_out = [done |-> FALSE, text |-> <<>>]
    /\ dialect_cell = [done |-> FALSE, text |-> <<>>]
    /\ EarlierIdle
    /\ CodeIdle
    /\ BeamerListIdle
    /\ BeamerFrameIdle
    /\ BeamerDensityIdle
    /\ OrderIdle
    /\ ConvertIdle
    /\ WalkerIdle
    /\ MultiColumnIdle
    /\ TrackerIdle

NextDialectRuns == BeamerFormatRuns \/ WikiFormatRuns \/ WikiPutTable

SpecDialectRuns == InitDialectRuns /\ [][NextDialectRuns]_vars

\* C25: in every dialect a segment with is_code is rendered as inline code
\* only, and one with is_math and not is_code as inline math only: no
\* escaping of the merger and no strong, accent, color or hyperlink decoration
\* reaches it, whatever the other style fields are.  Here for one run.
C25_CodeAndMathUndecorated ==
    (dialect_out.done /\ Len(dialect_runs) = 1) =>
        LET run == dialect_runs[1]
            self == FormatterOf(dialect, dialect_noesc, FALSE)
        IN /\ (dialect = "beamer" /\ run.style.is_code) =>
                  dialect_out.text = BeamerGetInlineCode(dialect_noesc, run.text)
           /\ (dialect = "wiki" /\ run.style.is_code) =>
                  dialect_out.text = Strip(BaseGetInlineCode(run.text))
           /\ (run.style.is_math /\ ~run.style.is_code) =>
                  dialect_out.text = Strip(GetInlineMath(run.text))

OneEmphasis == {Style(FALSE, FALSE, TRUE, FALSE, None, NoLink),
                Style(FALSE, FALSE, FALSE, TRUE, None, NoLink)}

\* the number of places of text that hold c
CountChar(text, c) == Cardinality({i \in 1..Len(text) : text[i] = c})

\* C26: in every dialect, Beamer included, adjacent runs of one style are
\* coalesced before formatting: two adjacent strong (or accent) runs with
\* visible text come out under one delimiter pair, not two.
C26_AdjacentRunsCoalesced ==
    (/\ dialect_out.done
     /\ Len(dialect_runs) = 2
     /\ dialect_runs[1].style = dialect_runs[2].style
     /\ dialect_runs[1].style \in OneEmphasis
     /\ Strip(dialect_runs[1].text) # <<>>
     /\ Strip(dialect_runs[2].text) # <<>>) =>
        LET strong == dialect_runs[1].style.is_strong
        IN IF dialect = "beamer"
           THEN CountChar(dialect_out.text, IF strong THEN "textbf" ELSE "textit") = 1
           ELSE CountChar(dialect_out.text, "'") = IF strong THEN 6 ELSE 4

\* leading whitespace + open + core + close + trailing whitespace, and the
\* text itself when it is empty or all whitespace
DelimitedCore(text, open, close) ==
    IF Strip(text) = <<>> THEN text
    ELSE SubSeq(text, 1, Len(text) - Len(LStrip(text))) \o open \o Strip(text)
         \o close \o SubSeq(text, Len(RStrip(text)) + 1, Len(text))

\* C27: the strong and accent primitives of every dialect keep the
\* surrounding whitespace outside the delimiters and return an empty or
\* all-whitespace text unchanged, so no empty delimiter pair is written.
\* Here on the one run of a strong or accent element.
C27_EmphasisKeepsWhitespace ==
    (/\ dialect_out.done
     /\ Len(dialect_runs) = 1
     /\ dialect_runs[1].style \in OneEmphasis) =>
        LET strong == dialect_runs[1].style.is_strong
            text == dialect_runs[1].text
        IN IF dialect = "beamer"
           THEN dialect_out.text =
                    DelimitedCore(BeamerGetEscaped(dialect_noesc, text),
                                  <<"\\", IF strong THEN "textbf" ELSE "textit", "{">>,
                                  <<"}">>)
           ELSE dialect_out.text =
                    Strip(DelimitedCore(WikiGetEscaped(dialect_noesc, text),
                                        IF strong THEN <<"'", "'", "'">> ELSE <<"'", "'">>,
                                        IF strong THEN <<"'", "'", "'">> ELSE <<"'", "'">>))

\* C29: with escaping enabled the text of a segment that is neither code nor
\* math goes through the escape function of the dialect once on its way to
\* the output, as hyperlink text and in a table cell as elsewhere.  Here for
\* the one run of a Wiki element: a link, and a plain table cell.
C29_EscapedOnce ==
    (/\ dialect = "wiki"
     /\ ~dialect_noesc
     /\ dialect_out.done
     /\ Len(dialect_runs) = 1
     /\ dialect_runs[1].text # <<>>) =>
        LET run == dialect_runs[1]
            once == WikiGetEscaped(FALSE, run.text)
        IN /\ run.style = Style(FALSE, FALSE, FALSE, FALSE, None, <<"u", "_">>) =>
                  dialect_out.text =
                      Strip(<<"[">> \o WikiGetEscaped(FALSE, run.style.hyperlink)
                            \o <<" ">> \o once \o <<"]">>)
           /\ (run.style = PlainStyle /\ dialect_cell.done) =>
                  dialect_cell.text = Strip(once)

\* C28: the shared merger removes vertical tabs and form feeds from runs that
\* are neither code nor math and keeps them in code and math runs: the text
\* handed to get_inline_code holds every such character of the run.  Here for
\* the one code run of an element in the shared Formatter, whose
\* get_inline_code writes every character it is handed.
C28_ControlCharsKeptInCode ==
    (/\ formatter = "base"
     /\ formatted.done
     /\ Len(runs) = 1
     /\ runs[1].style.is_code) =>
        CountChar(formatted.text, "VT") = CountChar(runs[1].text, "VT")

\* C30: the image position resolver is total on usable geometry: with left_px
\* set, a scaled display width above 0, an original slide width above 0 and no
\* explicit hint it answers left, center or right, never no hint, also when
\* the centre of the image lies on a third boundary of the target canvas.
C30_ResolverTotal ==
    (/\ hint_result # "unset"
     /\ image.position_hint = None
     /\ image.left_px # NoInt
     /\ PresOriginalSlideWidth(slide_width_px) > 0
     /\ GetScaledImageWidthForHinting(image, image_width,
                                      PresOriginalSlideWidth(slide_width_px),
                                      hint_target) > 0) =>
        hint_result \in {"left", "center", "right"}

=============================================================================
